---- MODULE Spec2Model ----
(***************************************************************************)
(* FIFO depth engine of abe.uarch: layered traffic compiler, the shared    *)
(* solver workflow (FifoSolver.run) and the Ready/Valid, CBFC, XON/XOFF    *)
(* and Replay solvers.  Python lists are TLA+ sequences: Python index t is *)
(* TLA+ index t + 1 (see At).  A CP-SAT solve is the set of assignments    *)
(* that satisfy the constraints the code adds, restricted to the optimum   *)
(* of the objective the code sets; the solver returns any one of them.     *)
(***************************************************************************)
EXTENDS Integers, Sequences, FiniteSets, TLC

(***************************************************************************)
(* Bounds of the model                                                     *)
(***************************************************************************)
MaxHorizon == 3
MaxLatency == 1
MaxTxn == 2
MaxLayeredHorizon == 6

(***************************************************************************)
(* Python sentinels                                                        *)
(***************************************************************************)
AUTO == -1
NONE == -2

(***************************************************************************)
(* Arithmetic and list helpers                                             *)
(***************************************************************************)
Max2(a, b) == IF a >= b THEN a ELSE b
Min2(a, b) == IF a <= b THEN a ELSE b
SetMax(S) == CHOOSE x \in S : \A y \in S : y <= x
SetMin(S) == CHOOSE x \in S : \A y \in S : x <= y
CeilDiv(a, b) == (a + b - 1) \div b

\* Python list element seq[t] (0-based)
At(seq, t) == seq[t + 1]

RECURSIVE SumSeq(_)
SumSeq(s) == IF s = <<>> THEN 0 ELSE s[1] + SumSeq(Tail(s))

SeqMax(s) == SetMax({s[i] : i \in 1..Len(s)})

\* [v] * n
Rep(v, n) == [i \in 1..n |-> v]

RECURSIVE RepSeq(_, _)
\* base * n (list repetition)
RepSeq(base, n) == IF n <= 0 THEN <<>> ELSE base \o RepSeq(base, n - 1)

RECURSIVE Gcd(_, _)
Gcd(a, b) == IF b = 0 THEN a ELSE Gcd(b, a % b)

_lcm(a, b) == (a \div Gcd(a, b)) * b


(***************************************************************************)
(* Python float arithmetic (IEEE-754 binary64, round to nearest even) as   *)
(* the CDC solver uses it.  A natural number is a sequence of bits, least  *)
(* significant first, without leading zeros; a non-negative float is a     *)
(* record [mant, exp] of value mant * 2^exp with mant odd (or empty for    *)
(* 0.0) and at most Precision bits.  Exponent range and subnormals are not *)
(* modelled: no value of the model comes near them.                        *)
(***************************************************************************)
Precision == 53

RECURSIVE BitsOfNat(_)
BitsOfNat(n) == IF n = 0 THEN <<>> ELSE <<n % 2>> \o BitsOfNat(n \div 2)

RECURSIVE NatOfBits(_)
NatOfBits(b) == IF b = <<>> THEN 0 ELSE b[1] + 2 * NatOfBits(Tail(b))

\* without the leading (most significant) zeros
BitsTrim(b) ==
    IF \A i \in 1..Len(b) : b[i] = 0 THEN <<>>
    ELSE SubSeq(b, 1, CHOOSE i \in 1..Len(b) :
                          b[i] = 1 /\ \A j \in (i + 1)..Len(b) : b[j] = 0)

\* bit i of b, zero above its length
BitAt(b, i) == IF i <= Len(b) THEN b[i] ELSE 0

RECURSIVE BitsAddRange(_, _, _, _, _)
\* <<bits lo..hi of a + b + carry, carry out>>, by halves
BitsAddRange(a, b, lo, hi, carry) ==
    IF lo = hi
    THEN <<<<(BitAt(a, lo) + BitAt(b, lo) + carry) % 2>>,
           (BitAt(a, lo) + BitAt(b, lo) + carry) \div 2>>
    ELSE LET low == BitsAddRange(a, b, lo, (lo + hi) \div 2, carry)
             high == BitsAddRange(a, b, (lo + hi) \div 2 + 1, hi, low[2])
         IN  <<low[1] \o high[1], high[2]>>

BitsAdd(a, b, carry) ==
    LET n == Max2(Len(a), Len(b))
    IN  IF n = 0 THEN (IF carry = 1 THEN <<1>> ELSE <<>>)
        ELSE LET s == BitsAddRange(a, b, 1, n, carry)
             IN  IF s[2] = 1 THEN s[1] \o <<1>> ELSE s[1]

RECURSIVE BitsSubRange(_, _, _, _, _)
\* <<bits lo..hi of a - b - borrow, borrow out>>, by halves
BitsSubRange(a, b, lo, hi, borrow) ==
    IF lo = hi
    THEN <<<<(BitAt(a, lo) - BitAt(b, lo) - borrow + 2) % 2>>,
           IF BitAt(a, lo) - BitAt(b, lo) - borrow < 0 THEN 1 ELSE 0>>
    ELSE LET low == BitsSubRange(a, b, lo, (lo + hi) \div 2, borrow)
             high == BitsSubRange(a, b, (lo + hi) \div 2 + 1, hi, low[2])
         IN  <<low[1] \o high[1], high[2]>>

\* a - b for a >= b
BitsSub(a, b) ==
    IF a = <<>> THEN <<>> ELSE BitsTrim(BitsSubRange(a, b, 1, Len(a), 0)[1])

\* b * 2^n
BitsShl(b, n) == IF b = <<>> THEN <<>> ELSE Rep(0, n) \o b

RECURSIVE BitsMulRange(_, _, _, _)
\* a times the bits lo..hi of b at their weights, by halves
BitsMulRange(a, b, lo, hi) ==
    IF lo = hi THEN (IF b[lo] = 1 THEN BitsShl(a, lo - 1) ELSE <<>>)
    ELSE BitsAdd(BitsMulRange(a, b, lo, (lo + hi) \div 2),
                 BitsMulRange(a, b, (lo + hi) \div 2 + 1, hi), 0)

BitsMul(a, b) ==
    IF a = <<>> \/ b = <<>> THEN <<>> ELSE BitsMulRange(a, b, 1, Len(b))

\* the number of trailing (least significant) zero bits
LowZeros(b) ==
    IF \A i \in 1..Len(b) : b[i] = 0 THEN 0
    ELSE (CHOOSE i \in 1..Len(b) : b[i] = 1 /\ \A j \in 1..(i - 1) : b[j] = 0) - 1

\* The float of value bits * 2^e, for bits that need no rounding
FloatExact(bits, e) ==
    [mant |-> SubSeq(bits, LowZeros(bits) + 1, Len(bits)),
     exp |-> IF bits = <<>> THEN 0 ELSE e + LowZeros(bits)]

\* bits * 2^e rounded to Precision bits, ties to even
FloatRound(bits, e) ==
    IF Len(bits) <= Precision THEN FloatExact(bits, e)
    ELSE LET d == Len(bits) - Precision
             kept == SubSeq(bits, d + 1, Len(bits))
             up == /\ bits[d] = 1
                   /\ \/ kept[1] = 1
                      \/ \E i \in 1..(d - 1) : bits[i] = 1
         IN  FloatExact(IF up THEN BitsAdd(kept, <<1>>, 0) ELSE kept, e + d)

FloatZero == [mant |-> <<>>, exp |-> 0]
FloatOne == [mant |-> <<1>>, exp |-> 0]

\* float(n) of a Python int given by its bits
FloatOfBits(bits) == FloatRound(bits, 0)

RECURSIVE DivRange(_, _, _, _, _)
\* Long division of the bits hi..lo of num by the int d with running
\* remainder r < d, by halves: <<quotient bits, most significant first,
\* remainder>>
DivRange(num, hi, lo, d, r) ==
    IF lo = hi
    THEN <<<<(2 * r + num[lo]) \div d>>, (2 * r + num[lo]) % d>>
    ELSE LET high == DivRange(num, hi, (lo + hi) \div 2 + 1, d, r)
             low == DivRange(num, (lo + hi) \div 2, lo, d, high[2])
         IN  <<high[1] \o low[1], low[2]>>

BitsReverse(b) == [i \in 1..Len(b) |-> b[Len(b) + 1 - i]]

\* Python's n / d (true division of ints, correctly rounded) for the int n
\* given by its bits and 0 < d < 2^30: the quotient to more than Precision
\* bits, with a sticky bit for a remainder, then rounded
FloatDiv(bits, d) ==
    IF bits = <<>> THEN FloatZero
    ELSE LET k == Precision + 2 + Len(BitsOfNat(d))
             num == BitsShl(bits, k)
             qr == DivRange(num, Len(num), 1, d, 0)
             sticky == IF qr[2] # 0 THEN 1 ELSE 0
         IN  FloatRound(<<sticky>> \o BitsTrim(BitsReverse(qr[1])), -k - 1)

FloatAdd(x, y) ==
    FloatRound(BitsAdd(BitsShl(x.mant, x.exp - Min2(x.exp, y.exp)),
                       BitsShl(y.mant, y.exp - Min2(x.exp, y.exp)), 0),
               Min2(x.exp, y.exp))

\* x - y for x >= y
FloatSub(x, y) ==
    FloatRound(BitsSub(BitsShl(x.mant, x.exp - Min2(x.exp, y.exp)),
                       BitsShl(y.mant, y.exp - Min2(x.exp, y.exp))),
               Min2(x.exp, y.exp))

FloatMul(x, y) == FloatRound(BitsMul(x.mant, y.mant), x.exp + y.exp)

\* x >= 1.0
FloatGeqOne(x) == x.mant # <<>> /\ Len(x.mant) + x.exp >= 1

\* int(math.ceil(x)); the mantissa of a value is odd, so a negative
\* exponent means a fraction
FloatCeilBits(x) ==
    IF x.mant = <<>> THEN <<>>
    ELSE IF x.exp >= 0 THEN BitsShl(x.mant, x.exp)
    ELSE IF Len(x.mant) <= -x.exp THEN <<1>>
    ELSE BitsAdd(SubSeq(x.mant, 1 - x.exp, Len(x.mant)), <<>>, 1)

FloatCeil(x) == NatOfBits(FloatCeilBits(x))

\* int(ceil(a * b / d)) on Python ints: the product is exact, the true
\* division rounds to a float
CeilOfQuotient(a, b, d) ==
    FloatCeil(FloatDiv(BitsMul(BitsOfNat(a), BitsOfNat(b)), d))

(***************************************************************************)
(* abe.utils.round_value and fifo_depth_utils.apply_margin                 *)
(***************************************************************************)
RECURSIVE Pow2Loop(_, _)
Pow2Loop(p, value) == IF p < value THEN Pow2Loop(2 * p, value) ELSE p

round_value(value, rounding) ==
    IF rounding = "none" THEN value
    ELSE IF value <= 1 THEN 1 ELSE Pow2Loop(1, value)

\* int(ceil(val * (100 + margin_val) / 100)): the division is a float division
apply_margin(val, margin_type, margin_val) ==
    IF margin_type = "percentage"
    THEN CeilOfQuotient(val, 100 + margin_val, 100)
    ELSE val + margin_val

\* apply_margin on a Python int of any size, given and returned as bits
apply_margin_wide(val, margin_type, margin_val) ==
    IF margin_type = "percentage"
    THEN FloatCeilBits(FloatDiv(BitsMul(val, BitsOfNat(100 + margin_val)),
                                100))
    ELSE BitsAdd(val, BitsOfNat(margin_val), 0)


(***************************************************************************)
(* Layered traffic compiler (fifo_depth_utils)                             *)
(***************************************************************************)
_period_from_spec(ls) ==
    ls.s_cnt * (ls.b_cnt * (ls.t_valid + ls.t_gap) + ls.b_gap) + ls.s_gap

ValidFirst(ls) == Rep(1, ls.t_valid) \o Rep(0, ls.t_gap)
GapFirst(ls) == Rep(0, ls.t_gap) \o Rep(1, ls.t_valid)

RECURSIVE ReadTxns(_, _, _)
\* transactions txn_idx..b_cnt-1 of burst burst_idx, read_congestion mode
ReadTxns(ls, burst_idx, txn_idx) ==
    IF txn_idx >= ls.b_cnt THEN <<>>
    ELSE (IF ls.s_cnt = 1 THEN GapFirst(ls)
          ELSE IF (burst_idx + txn_idx) % 2 = 0 THEN ValidFirst(ls)
          ELSE GapFirst(ls))
         \o ReadTxns(ls, burst_idx, txn_idx + 1)

RECURSIVE ReadBursts(_, _)
ReadBursts(ls, burst_idx) ==
    IF burst_idx >= ls.s_cnt THEN <<>>
    ELSE (Rep(0, ls.b_gap) \o ReadTxns(ls, burst_idx, 0))
         \o ReadBursts(ls, burst_idx + 1)

StartWithGapFirst(ls, burst_idx) ==
    IF ls.b_cnt % 2 = 1 THEN burst_idx % 2 = 1 ELSE FALSE

RECURSIVE WriteTxns(_, _, _)
\* transactions txn_idx..b_cnt-1 of burst burst_idx, write_congestion mode
WriteTxns(ls, burst_idx, txn_idx) ==
    IF txn_idx >= ls.b_cnt THEN <<>>
    ELSE (IF ls.s_cnt = 1 THEN ValidFirst(ls)
          ELSE IF \/ (txn_idx % 2 = 0 /\ StartWithGapFirst(ls, burst_idx))
                  \/ (txn_idx % 2 = 1 /\ ~StartWithGapFirst(ls, burst_idx))
               THEN GapFirst(ls)
               ELSE ValidFirst(ls))
         \o WriteTxns(ls, burst_idx, txn_idx + 1)

WriteBurst(ls, burst_idx) ==
    LET txns == WriteTxns(ls, burst_idx, 0)
        gap == Rep(0, ls.b_gap)
    IN  IF ls.s_cnt = 1 THEN txns \o gap
        ELSE IF burst_idx = 0 THEN gap \o txns
        ELSE IF burst_idx = ls.s_cnt - 1 THEN txns \o gap
        ELSE IF burst_idx % 2 = 1 THEN txns \o gap
        ELSE gap \o txns

RECURSIVE WriteBursts(_, _)
WriteBursts(ls, burst_idx) ==
    IF burst_idx >= ls.s_cnt THEN <<>>
    ELSE WriteBurst(ls, burst_idx) \o WriteBursts(ls, burst_idx + 1)

_profile_from_spec(ls, mode) ==
    IF mode = "read_congestion"
    THEN Rep(0, ls.s_gap) \o ReadBursts(ls, 0)
    ELSE WriteBursts(ls, 0) \o Rep(0, ls.s_gap)

\* A tiling that pads the first period with idle cycles
TilePadded(base, horizon) ==
    IF Len(base) >= horizon THEN SubSeq(base, 1, horizon)
    ELSE base \o Rep(0, horizon - Len(base))

_tile_profile(base, horizon) ==
    IF base = <<>> THEN Rep(0, horizon)
    ELSE SubSeq(RepSeq(base, horizon \div Len(base) + 1), 1, horizon)

\* mask.index(1), or len(mask) when there is no 1
_first_one(mask) ==
    IF \E i \in 1..Len(mask) : mask[i] = 1
    THEN SetMin({i \in 1..Len(mask) : mask[i] = 1}) - 1
    ELSE Len(mask)

\* mask[-k:] + mask[:-k]
_rotate_right(mask, k) ==
    LET n == Len(mask)
        kk == IF n = 0 THEN 0 ELSE k % n
    IN  IF n = 0 \/ kk = 0 THEN mask
        ELSE SubSeq(mask, n - kk + 1, n) \o SubSeq(mask, 1, n - kk)

\* An automatic horizon that ignores the blind window
AutoHorizonBlocksOnly(overall_period, blind_window, kmin_blocks) ==
    kmin_blocks * overall_period

\* int(ceil(horizon_0 / overall_period) * overall_period): the division is a
\* float division
_auto_horizon_sync(overall_period, blind_window, kmin_blocks) ==
    CeilOfQuotient(Max2(4 * blind_window, kmin_blocks * overall_period), 1,
                   overall_period) * overall_period

\* (flat_spec, overall_period, write_valid, read_valid) of a layered spec
compile_layered_spec(raw) ==
    LET write_period == _period_from_spec(raw.write_profile)
        read_period == _period_from_spec(raw.read_profile)
        op == _lcm(write_period, read_period)
        horizon == IF raw.horizon = AUTO
                   THEN _auto_horizon_sync(op, raw.blind_window, raw.kmin_blocks)
                   ELSE ((raw.horizon + (op - 1)) \div op) * op
        base_w == _profile_from_spec(raw.write_profile, "write_congestion")
        base_r0 == _profile_from_spec(raw.read_profile, "read_congestion")
        first_w == _first_one(base_w)
        base_r == IF first_w < Len(base_w)
                  THEN _rotate_right(base_r0, raw.wr_latency + first_w)
                  ELSE base_r0
        wv == _tile_profile(base_w, horizon)
        rv == _tile_profile(base_r, horizon)
    IN  [horizon |-> horizon, overall_period |-> op,
         write_valid |-> wv, read_valid |-> rv,
         sum_w |-> SumSeq(wv) * raw.w_max, sum_r |-> SumSeq(rv) * raw.r_max]

(***************************************************************************)
(* State of one solver object (FifoSolver.__init__) and of its run         *)
(***************************************************************************)
VARIABLES
    pc,                 \* the step of FifoSolver.run that executes next
    spec,               \* self.spec, the loaded specification
    cdc_ctx,            \* self.cdc_ctx
    flat_spec,          \* self.flat_spec
    overall_period,     \* self.overall_period
    write_valid,        \* self.write_valid
    read_valid,         \* self.read_valid
    params,             \* self.params
    results,            \* self.results
    results_check_args, \* self.results_check_args
    cred_bounds,        \* CbfcSolver._cred_bounds
    sol,                \* values of the solver variables not copied to results
    saved,              \* results written to the output directory
    err,                \* the exception that ended the run, "" if none
    full_spec,          \* CdcSolver.full_spec
    wr_window_cycles,   \* CdcSolver.wr_window_cycles
    wr_items_per_cycle, \* CdcSolver.wr_items_per_cycle
    calls,              \* the calls of round_value and apply_margin made so far
    main_pc,            \* the position of fifo_depth.main, "none" outside main
    spec_files,         \* the spec files main has not finished, current first
    outdir,             \* cdc_results_scalars.json of the output directory
    ref_model,          \* the attributes of a RadAsyncFifoRefModel
    ref_call,           \* the last call on the reference model
    drv_pc,             \* the position of RadAsyncFifoWriteDriver.run_phase
    drv_tr,             \* the item drive_item is driving (its tr)
    dut,                \* the values driven on the DUT inputs winc and wdata
    wclk_edges          \* the drive edges of wclk so far, modulo WclkWrap

vars == <<pc, spec, cdc_ctx, flat_spec, overall_period, write_valid, read_valid, params,
          results, results_check_args, cred_bounds, sol, saved, err,
          full_spec, wr_window_cycles, wr_items_per_cycle, calls,
          main_pc, spec_files, outdir, ref_model, ref_call, drv_pc, drv_tr, dut,
          wclk_edges>>

\* The attributes only CdcSolver.run assigns
cdc_vars == <<full_spec, wr_window_cycles, wr_items_per_cycle>>

\* What only fifo_depth.main and CdcResults.save assign
main_vars == <<main_pc, spec_files, outdir>>

\* _LayerSpec of a profile without burst or stream structure
PlainProfile(tv, tg) ==
    [t_valid |-> tv, t_gap |-> tg, b_cnt |-> 1, b_gap |-> 0, s_cnt |-> 1, s_gap |-> 0]

\* Field defaults of FifoModel, CbfcModel, XonXoffModel and ReplayModel
\* A hysteresis bound: a float is a ratio num / den of xon, an int is an
\* absolute band
Ratio(n, d) == [ratio |-> TRUE, num |-> n, den |-> d]
Absolute(n) == [ratio |-> FALSE, num |-> n, den |-> 1]

\* xoff_range: "auto", or a list [lo, hi]
AutoRange == [auto |-> TRUE, lo |-> 0, hi |-> 0]
RangeOf(a, b) == [auto |-> FALSE, lo |-> a, hi |-> b]

DefaultSpec ==
    [fifo_type |-> "ready_valid", layered |-> FALSE,
     margin_type |-> "absolute", margin_val |-> 0, rounding |-> "none",
     horizon |-> 1, w_max |-> 1, r_max |-> 1,
     sum_w_min |-> 0, sum_w_max |-> 0, sum_r_min |-> 0, sum_r_max |-> 0,
     wr_latency |-> 0, rd_latency |-> 0,
     write_profile |-> PlainProfile(1, 0), read_profile |-> PlainProfile(1, 0),
     kmin_blocks |-> 4, blind_window |-> 0,
     cred_max |-> AUTO, cred_init |-> AUTO, cred_gran |-> 1,
     cred_ret_latency |-> 0, cred_auto_optimize |-> TRUE, cred_headroom |-> 2,
     cred_margin_type |-> "absolute", cred_margin_val |-> 0,
     cred_rounding |-> "none",
     atomic_tail |-> 0, react_latency |-> 0, resume_latency |-> 0,
     w_throttle_max |-> 0, thresholds |-> "auto", xon |-> NONE, xoff |-> NONE,
     throughput_target |-> AUTO, xon_min |-> AUTO, xoff_range |-> AutoRange,
     hysteresis |-> <<Ratio(1, 1), Ratio(3, 2)>>,
     prefer_small_band |-> FALSE, prefer_low_xoff |-> FALSE,
     rtt |-> 0]

NoResults ==
    [set |-> FALSE, depth |-> 0, occ_peak |-> 0, w_seq |-> <<>>, r_seq |-> <<>>,
     occ_seq |-> <<>>, basic_checks_pass |-> FALSE, msg |-> "",
     cred_max |-> 0, cred_init |-> 0, xon |-> 0, xoff |-> 0,
     thr_num |-> 0, thr_den |-> 1, t_star |-> 0]

NoSol == [path |-> "", w |-> <<>>, r |-> <<>>, occ |-> <<>>, peak |-> 0,
          y |-> <<>>, t_star |-> 0, cred |-> <<>>, ret |-> <<>>,
          in_pause |-> <<>>, throttle_active |-> <<>>,
          trials |-> <<>>, peak_ub |-> NONE, throughput_abs_req |-> NONE]

NoCheckArgs == [occ_max |-> 0, throughput_target |-> NONE]

NoCredBounds == [cred_init_lb |-> 0, cred_max_lb |-> 0, max_deficit |-> 0,
                 max_surplus |-> 0]

NoCdc == [base_sync_fifo_depth |-> 0, rd_sync_cycles_in_wr |-> 0]

\* The verification components of rad_async_fifo
dv_vars == <<ref_model, ref_call, drv_pc, drv_tr, dut, wclk_edges>>

\* The write driver and the clock it waits for
drv_vars == <<drv_pc, drv_tr, dut, wclk_edges>>

\* A write item and a read item as their constructors leave them
RadAsyncFifoWriteItem == [kind |-> "write", winc |-> 0, wdata |-> 0, wfull |-> NONE]
RadAsyncFifoReadItem == [kind |-> "read", rinc |-> 0, rdata |-> NONE, rempty |-> NONE]

\* RadAsyncFifoRefModel.__init__ with RAD_ASYNC_FIFO_DSIZE and
\* RAD_ASYNC_FIFO_ASIZE set to dsize and asize
NewRefModel(dsize, asize) ==
    [dsize |-> Max2(1, dsize), asize |-> Max2(1, asize),
     depth |-> 2 ^ Max2(1, asize), data_mask |-> 2 ^ Max2(1, dsize) - 1,
     _fifo |-> <<>>, _wrst_active |-> FALSE, _rrst_active |-> FALSE,
     _writes_accepted |-> 0, _writes_dropped |-> 0, _reads_accepted |-> 0,
     _reads_blocked |-> 0]

\* The reference model was not called yet
NoRefCall == [fn |-> "none", active |-> FALSE, ret |-> RadAsyncFifoWriteItem]

\* No verification component is running
NoDv ==
    /\ ref_model = NewRefModel(8, 3)
    /\ ref_call = NoRefCall
    /\ drv_pc = "none"
    /\ drv_tr = RadAsyncFifoWriteItem
    /\ dut = [winc |-> 0, wdata |-> 0]
    /\ wclk_edges = 0

\* The CDC scalars file of the output directory: absent, or the scalars a
\* CDC stage saved (CdcResults: base_sync_fifo_depth, wptr_cdc_cycles_in_wr)
NoCdcFile == [exists |-> FALSE, corrupt |-> FALSE, keys |-> {},
              base_sync_fifo_depth |-> 0, wptr_cdc_cycles_in_wr |-> 0]

\* The attributes of a solver object after __init__ and get_cli
NewSolver ==
    [pc |-> "get_spec", spec |-> DefaultSpec, cdc_ctx |-> NoCdc,
     flat_spec |-> DefaultSpec, overall_period |-> 0, write_valid |-> <<>>,
     read_valid |-> <<>>, params |-> DefaultSpec, results |-> NoResults,
     results_check_args |-> NoCheckArgs, cred_bounds |-> NoCredBounds,
     sol |-> NoSol, saved |-> FALSE, err |-> "", full_spec |-> DefaultSpec,
     wr_window_cycles |-> 0, wr_items_per_cycle |-> 0]

\* The solver object after FifoSolver.__init__ and get_cli
InitRun ==
    /\ pc = "get_spec"
    /\ spec = DefaultSpec
    /\ cdc_ctx = NoCdc
    /\ flat_spec = DefaultSpec
    /\ overall_period = 0
    /\ write_valid = <<>>
    /\ read_valid = <<>>
    /\ params = DefaultSpec
    /\ results = NoResults
    /\ results_check_args = NoCheckArgs
    /\ cred_bounds = NoCredBounds
    /\ sol = NoSol
    /\ saved = FALSE
    /\ err = ""
    /\ full_spec = DefaultSpec
    /\ wr_window_cycles = 0
    /\ wr_items_per_cycle = 0
    /\ calls = <<>>
    /\ main_pc = "none"
    /\ spec_files = <<>>
    /\ outdir = NoCdcFile
    /\ NoDv

(***************************************************************************)
(* Inputs of a run: the specification file and the CDC scalars file        *)
(***************************************************************************)
MaxCap == 2
ScenarioN == 8

Caps == {1, MaxCap}
Latencies == 0..MaxLatency

\* Flat specifications: explicit horizon, caps, latencies and totals
FlatTotals(h, wm, rm) ==
    UNION {{[DefaultSpec EXCEPT !.horizon = h, !.w_max = wm, !.r_max = rm,
                                !.sum_w_max = swx, !.sum_w_min = swn,
                                !.sum_r_max = srx, !.sum_r_min = srn] :
                swn \in {0, swx}, srn \in {0, srx}} :
           swx \in 0..h * wm, srx \in 0..h * rm}

FlatTraffic ==
    UNION {{[s EXCEPT !.wr_latency = wl, !.rd_latency = rl] :
                s \in FlatTotals(h, wm, rm), wl \in Latencies, rl \in Latencies} :
           h \in 1..MaxHorizon, wm \in Caps, rm \in Caps}

\* Layered specifications: write and read profiles, horizon explicit or auto
Profiles ==
    {p \in [t_valid : 1..MaxTxn, t_gap : 0..MaxTxn, b_cnt : {1}, b_gap : {0},
            s_cnt : 1..2, s_gap : {0}] :
        _period_from_spec(p) <= MaxLayeredHorizon}

ProfilePairs ==
    {pp \in Profiles \X Profiles :
        _lcm(_period_from_spec(pp[1]), _period_from_spec(pp[2]))
            <= MaxLayeredHorizon}

LayeredTraffic ==
    {[DefaultSpec EXCEPT !.layered = TRUE, !.horizon = h, !.kmin_blocks = 1,
                         !.w_max = wm, !.r_max = rm,
                         !.write_profile = pp[1], !.read_profile = pp[2],
                         !.wr_latency = wl, !.rd_latency = rl] :
        h \in {AUTO, 1}, wm \in Caps, rm \in Caps, pp \in ProfilePairs,
        wl \in Latencies, rl \in Latencies}

\* The block scenario: writes valid on ScenarioN cycles then idle for
\* ScenarioN cycles, reads with the same profile, one item per cycle
ScenarioSpecs ==
    {[DefaultSpec EXCEPT !.layered = TRUE, !.horizon = AUTO, !.kmin_blocks = 1,
                         !.write_profile = PlainProfile(ScenarioN, ScenarioN),
                         !.read_profile = PlainProfile(ScenarioN, ScenarioN)]}

(***************************************************************************)
(* CDC solver (fifo_depth_cdc): analytic depth of the clock-domain         *)
(* crossing FIFO                                                           *)
(***************************************************************************)
\* Field defaults of CdcModel; the two frequencies are required fields
DefaultCdc ==
    [margin_type |-> "absolute", margin_val |-> 0, rounding |-> "none",
     wr_clk_freq |-> 1, rd_clk_freq |-> 1, big_fifo_domain |-> "write",
     wr_clk_ppm |-> 0, rd_clk_ppm |-> 0,
     wptr_inc_cycles |-> 0, wptr_sync_slip_cycles |-> 1, wptr_sync_stages |-> 2,
     rd_react_cycles |-> 1, rptr_inc_cycles |-> 1, rptr_sync_slip_cycles |-> 1,
     rptr_sync_stages |-> 2, wr_full_update_cycles |-> 1,
     window_cycles |-> AUTO]

NoCdcResults ==
    [set |-> FALSE, basic_checks_pass |-> FALSE, msg |-> "", depth |-> 0,
     credit_loop_depth |-> 0, phase_margin_depth |-> 0, ppm_drift_depth |-> 0,
     base_sync_fifo_depth |-> 0, wptr_cdc_cycles_in_wr |-> 0]

\* CdcModel validation: positive frequencies, NonNegativeInt counts
CdcModelValid(c) ==
    /\ c.wr_clk_freq > 0 /\ c.rd_clk_freq > 0
    /\ c.margin_val >= 0 /\ c.wr_clk_ppm >= 0 /\ c.rd_clk_ppm >= 0
    /\ c.wptr_inc_cycles >= 0 /\ c.wptr_sync_slip_cycles >= 0
    /\ c.wptr_sync_stages >= 0 /\ c.rd_react_cycles >= 0
    /\ c.rptr_inc_cycles >= 0 /\ c.rptr_sync_slip_cycles >= 0
    /\ c.rptr_sync_stages >= 0 /\ c.wr_full_update_cycles >= 0
    /\ c.window_cycles = AUTO \/ c.window_cycles >= 0

\* CdcParams.check: the exception raised, "" when the parameters pass
CdcParamsCheck(p) ==
    IF p.wr_clk_freq <= 0 \/ p.rd_clk_freq <= 0 THEN "ValueError"
    ELSE IF p.big_fifo_domain \notin {"write", "read"} THEN "ValueError"
    ELSE IF \/ p.wptr_inc_cycles < 0 \/ p.wptr_sync_slip_cycles < 0
            \/ p.wptr_sync_stages < 0 \/ p.rd_react_cycles < 0
            \/ p.rptr_inc_cycles < 0 \/ p.rptr_sync_slip_cycles < 0
            \/ p.rptr_sync_stages < 0 \/ p.wr_full_update_cycles < 0
    THEN "ValueError"
    ELSE ""

wptr_cdc_cycles_in_rd(p) == p.wptr_sync_slip_cycles + p.wptr_sync_stages
rptr_cdc_cycles_in_wr(p) == p.rptr_sync_slip_cycles + p.rptr_sync_stages

_get_phase_margin_depth(p, wr_items) ==
    CeilOfQuotient(1, p.wr_clk_freq, p.rd_clk_freq) * wr_items

_get_ppm_drift_depth(p, wr_window, wr_items) ==
    CeilOfQuotient(p.wr_clk_ppm, wr_window, 1000000) * wr_items
        + CeilOfQuotient(p.rd_clk_ppm, wr_window, 1000000) * wr_items

_get_wptr_cdc_cycles_in_wr(p) ==
    CeilOfQuotient(wptr_cdc_cycles_in_rd(p), p.wr_clk_freq, p.rd_clk_freq)

\* rtt in seconds as a float, write_rate an int, their product a float
_get_credit_loop_depth(p, wr_items) ==
    LET wr_clk_cycles == p.wptr_inc_cycles + rptr_cdc_cycles_in_wr(p)
                             + p.wr_full_update_cycles
        rd_clk_cycles == wptr_cdc_cycles_in_rd(p) + p.rd_react_cycles
                             + p.rptr_inc_cycles
        rtt == FloatAdd(FloatDiv(BitsOfNat(wr_clk_cycles), p.wr_clk_freq),
                        FloatDiv(BitsOfNat(rd_clk_cycles), p.rd_clk_freq))
        write_rate == BitsMul(BitsOfNat(wr_items), BitsOfNat(p.wr_clk_freq))
    IN  FloatCeil(FloatMul(FloatOfBits(write_rate), rtt))

\* int(ceil(wr_window * (wr_items * max(0.0, 1.0 - rd_clk_freq / wr_clk_freq))))
BaseSyncFifoDepth(p, wr_window, wr_items) ==
    LET ratio == FloatDiv(BitsOfNat(p.rd_clk_freq), p.wr_clk_freq)
        excess == IF FloatGeqOne(ratio) THEN FloatZero
                  ELSE FloatSub(FloatOne, ratio)
        mismatch_per_w_cycle == FloatMul(FloatOfBits(BitsOfNat(wr_items)), excess)
    IN  FloatCeil(FloatMul(FloatOfBits(BitsOfNat(wr_window)),
                           mismatch_per_w_cycle))

\* A stage that keeps the long-term mismatch inside the CDC FIFO
CdcResultsWithMismatch(p, wr_window, wr_items) ==
    LET inner == _get_credit_loop_depth(p, wr_items)
                     + _get_phase_margin_depth(p, wr_items)
                     + _get_ppm_drift_depth(p, wr_window, wr_items)
                     + BaseSyncFifoDepth(p, wr_window, wr_items)
    IN  [set |-> TRUE, basic_checks_pass |-> TRUE, msg |-> "Analytic results.",
         depth |-> round_value(apply_margin(inner, p.margin_type, p.margin_val),
                               p.rounding),
         credit_loop_depth |-> _get_credit_loop_depth(p, wr_items),
         phase_margin_depth |-> _get_phase_margin_depth(p, wr_items),
         ppm_drift_depth |-> _get_ppm_drift_depth(p, wr_window, wr_items),
         base_sync_fifo_depth |-> BaseSyncFifoDepth(p, wr_window, wr_items),
         wptr_cdc_cycles_in_wr |-> _get_wptr_cdc_cycles_in_wr(p)]

\* CdcSolver.get_results
CdcResultsOf(p, wr_window, wr_items) ==
    LET credit_loop_depth == _get_credit_loop_depth(p, wr_items)
        phase_margin_depth == _get_phase_margin_depth(p, wr_items)
        ppm_drift_depth == _get_ppm_drift_depth(p, wr_window, wr_items)
    IN  [set |-> TRUE, basic_checks_pass |-> TRUE, msg |-> "Analytic results.",
         depth |-> round_value(
                       apply_margin(credit_loop_depth + phase_margin_depth
                                        + ppm_drift_depth,
                                    p.margin_type, p.margin_val),
                       p.rounding),
         credit_loop_depth |-> credit_loop_depth,
         phase_margin_depth |-> phase_margin_depth,
         ppm_drift_depth |-> ppm_drift_depth,
         base_sync_fifo_depth |-> BaseSyncFifoDepth(p, wr_window, wr_items),
         wptr_cdc_cycles_in_wr |-> _get_wptr_cdc_cycles_in_wr(p)]

\* window_cycles before the check of _get_wr_window_cycles: the compiled
\* horizon of a layered file, the horizon key of a flat one, or the explicit
\* count
WindowCyclesOf(c, full) ==
    IF c.window_cycles = AUTO
    THEN (IF full.layered THEN compile_layered_spec(full).horizon
          ELSE full.horizon)
    ELSE c.window_cycles

\* The window in write-domain cycles; a window that is not positive raises
\* ValueError before the conversion
_get_wr_window_cycles(c, full) ==
    IF c.big_fifo_domain = "read"
    THEN CeilOfQuotient(WindowCyclesOf(c, full), c.wr_clk_freq, c.rd_clk_freq)
    ELSE WindowCyclesOf(c, full)

\* w_max of a flat file, cycle.max_items_per_cycle (at least 1, else
\* ValueError) of the write profile of a layered one
_get_wr_items_per_cycle(full) == full.w_max

\* The scalars CdcResults.save writes to cdc_results_scalars.json
CdcScalarsFile(res) ==
    [exists |-> TRUE, corrupt |-> FALSE,
     keys |-> {"basic_checks_pass", "msg", "depth", "credit_loop_depth",
               "phase_margin_depth", "ppm_drift_depth",
               "base_sync_fifo_depth", "wptr_cdc_cycles_in_wr"},
     base_sync_fifo_depth |-> res.base_sync_fifo_depth,
     wptr_cdc_cycles_in_wr |-> res.wptr_cdc_cycles_in_wr]

(***************************************************************************)
(* FifoSolver workflow up to check_valids (fifo_depth_base)                *)
(***************************************************************************)
\* A file json.loads cannot parse (JSONDecodeError)
CorruptCdcFile == [NoCdcFile EXCEPT !.exists = TRUE, !.corrupt = TRUE]

\* The cdc section whose stage leaves such a file: the write clock twice as
\* fast as the read clock, over an explicit window
StageSection ==
    [DefaultCdc EXCEPT !.wr_clk_freq = 2000, !.rd_clk_freq = 1000,
                       !.window_cycles = 4]

CdcFiles ==
    {NoCdcFile, CorruptCdcFile, CdcScalarsFile(CdcResultsOf(StageSection, 4, 1))}

\* data.get(key, 0) on the parsed file
CdcGet(file, key) ==
    IF key \in file.keys
    THEN (IF key = "base_sync_fifo_depth" THEN file.base_sync_fifo_depth
          ELSE IF key = "wptr_cdc_cycles_in_wr" THEN file.wptr_cdc_cycles_in_wr
          ELSE 0)
    ELSE 0

_get_cdc_ctx(file) ==
    IF ~file.exists THEN NoCdc
    ELSE IF file.corrupt THEN NoCdc
    ELSE [base_sync_fifo_depth |-> CdcGet(file, "base_sync_fifo_depth"),
          rd_sync_cycles_in_wr |-> CdcGet(file, "rd_sync_cycles_in_wr")]

rd_sync_cycles_in_wr == cdc_ctx.rd_sync_cycles_in_wr
base_sync_fifo_depth == cdc_ctx.base_sync_fifo_depth

\* Every step that raises leaves the run in pc = "error" with err set
Raise(e) == pc' = "error" /\ err' = e

\* flat_spec, overall_period and masks produced by get_flat_spec
FlatSpecOf(s) ==
    IF s.layered
    THEN LET c == compile_layered_spec(s)
         IN  [s EXCEPT !.horizon = c.horizon,
                       !.sum_w_min = c.sum_w, !.sum_w_max = c.sum_w,
                       !.sum_r_min = c.sum_r, !.sum_r_max = c.sum_r]
    ELSE s

\* A check that does not compare the totals with horizon * cap
FifoParamsCheckNoCapacity(p) ==
    IF p.margin_val < 0 THEN "ValueError"
    ELSE IF p.horizon <= 0 THEN "ValueError"
    ELSE IF p.w_max < 0 \/ p.r_max < 0 THEN "ValueError"
    ELSE IF ~(0 <= p.sum_w_min /\ p.sum_w_min <= p.sum_w_max) THEN "ValueError"
    ELSE IF ~(0 <= p.sum_r_min /\ p.sum_r_min <= p.sum_r_max) THEN "ValueError"
    ELSE IF p.wr_latency < 0 \/ p.rd_latency < 0 THEN "ValueError"
    ELSE IF p.w_max = 0 \/ p.r_max = 0 THEN "ZeroDivisionError"
    ELSE IF p.horizon * p.w_max * p.r_max
              < p.sum_w_max * p.r_max + p.sum_r_max * p.w_max THEN "Warning"
    ELSE ""

\* FifoBaseParams.check followed by FifoParams.check: the exception raised,
\* "" when the parameters pass
FifoParamsCheck(p) ==
    IF p.margin_val < 0 THEN "ValueError"
    ELSE IF p.horizon <= 0 THEN "ValueError"
    ELSE IF p.w_max < 0 \/ p.r_max < 0 THEN "ValueError"
    ELSE IF ~(0 <= p.sum_w_min /\ p.sum_w_min <= p.sum_w_max) THEN "ValueError"
    ELSE IF ~(0 <= p.sum_r_min /\ p.sum_r_min <= p.sum_r_max) THEN "ValueError"
    ELSE IF p.sum_w_max > p.horizon * p.w_max THEN "SystemExit"
    ELSE IF p.sum_r_max > p.horizon * p.r_max THEN "SystemExit"
    ELSE IF p.wr_latency < 0 \/ p.rd_latency < 0 THEN "ValueError"
    ELSE IF p.w_max = 0 \/ p.r_max = 0 THEN "ZeroDivisionError"
    ELSE IF p.horizon * p.w_max * p.r_max
              < p.sum_w_max * p.r_max + p.sum_r_max * p.w_max THEN "Warning"
    ELSE ""

\* sum_r_min / horizon + eps >= sum_w_max / horizon with eps = 1e-6, which
\* for integer totals and horizon < 10^6 is sum_r_min >= sum_w_max
is_balanced(p) == p.sum_r_min >= p.sum_w_max

\* FifoResults.check(occ_max)
FifoResultsCheck(res, occ_max) ==
    [res EXCEPT !.basic_checks_pass =
        /\ ~(SeqMax(Tail(res.occ_seq)) > occ_max)
        /\ ~(res.occ_peak # SeqMax(Tail(res.occ_seq)))]

(***************************************************************************)
(* Specification files per protocol                                        *)
(***************************************************************************)
MaxCredit == 4
PauseHorizon == 5
ScenarioXoff == 5
SweepHorizon == 4
ScenarioRtt == 4

RvSpecs == FlatTraffic \cup LayeredTraffic \cup ScenarioSpecs

\* Traffic that passes FifoParams.check
ValidTraffic(S) == {s \in S : FifoParamsCheck(FlatSpecOf(s)) = ""}

\* CBFC: user-provided credits on top of the traffic parameters
CbfcCredits(S) ==
    {[s EXCEPT !.fifo_type = "cbfc", !.cred_init = k[1], !.cred_max = k[2],
               !.cred_gran = k[3], !.cred_ret_latency = k[4]] :
        s \in S,
        k \in {c \in (0..MaxCredit) \X (0..MaxCredit) \X {1, 2} \X Latencies :
                  /\ c[1] <= c[2] \/ c[2] = 0
                  /\ c[3] = 2 => c[4] = 0}}

CbfcSpecs ==
    CbfcCredits({s \in ValidTraffic(FlatTraffic) :
                    s.horizon = MaxHorizon /\ s.sum_w_min = 0
                    /\ s.sum_r_min = s.sum_r_max /\ s.wr_latency = 0})

\* CBFC with at least one automatic credit value
CbfcAutoCredits(S) ==
    {[s EXCEPT !.fifo_type = "cbfc", !.cred_init = k[1][1], !.cred_max = k[1][2],
               !.cred_gran = k[2], !.cred_ret_latency = k[3],
               !.cred_auto_optimize = k[4]] :
        s \in S,
        k \in {c \in {<<AUTO, AUTO>>, <<AUTO, 2>>, <<1, AUTO>>} \X {1, 2}
                        \X Latencies \X BOOLEAN :
                  c[2] = 2 => c[3] = 0} }

CbfcAutoSpecs ==
    CbfcAutoCredits({s \in ValidTraffic(FlatTraffic) :
                        s.horizon = MaxHorizon /\ s.sum_r_min = s.sum_r_max
                        /\ s.r_max = 1 /\ s.wr_latency = 0})

\* XON/XOFF: manual thresholds and the pause knobs on top of the traffic
XonXoffKnobs(S) ==
    {[s EXCEPT !.fifo_type = "xon_xoff", !.thresholds = "manual",
               !.xon = xn, !.xoff = xf, !.react_latency = k[1],
               !.resume_latency = k[2], !.w_throttle_max = k[3],
               !.atomic_tail = k[4]] :
        s \in S, xn \in 0..1, xf \in 1..2,
        k \in (Latencies \X Latencies \X {0, 1} \X {0})
               \cup ({0} \X {0} \X {0, 1} \X {1})}

XonXoffSpecs ==
    XonXoffKnobs({s \in ValidTraffic(FlatTraffic) :
                     s.horizon = MaxHorizon /\ s.w_max = MaxCap /\ s.r_max = 1
                     /\ s.rd_latency = 0})

\* XON/XOFF over a horizon long enough for a pause to set, clear and be held
XonXoffHoldSpecs ==
    {[DefaultSpec EXCEPT !.fifo_type = "xon_xoff", !.thresholds = "manual",
                         !.horizon = PauseHorizon, !.xon = 0, !.xoff = 1,
                         !.sum_w_max = swx, !.sum_r_max = srx,
                         !.sum_r_min = srn, !.react_latency = k[1],
                         !.resume_latency = k[2]] :
        swx \in 1..2, srx \in 1..2, srn \in {0, 1},
        k \in Latencies \X Latencies}

\* XON/XOFF hard stop without reaction latency, pause band xon..xoff
XonXoffScenarioSpecs ==
    {[DefaultSpec EXCEPT !.fifo_type = "xon_xoff", !.thresholds = "manual",
                         !.horizon = ScenarioXoff + 3,
                         !.xon = ScenarioXoff - 3, !.xoff = ScenarioXoff,
                         !.sum_w_max = ScenarioXoff + 2, !.sum_r_max = 1]}

\* XON/XOFF with automatic thresholds
XonXoffAutoSpecs ==
    {[DefaultSpec EXCEPT !.fifo_type = "xon_xoff", !.thresholds = "auto",
                         !.horizon = SweepHorizon,
                         !.sum_w_max = swx, !.sum_r_max = srx,
                         !.sum_r_min = srn, !.react_latency = k[1],
                         !.resume_latency = k[2], !.hysteresis = hys,
                         !.xoff_range = rng, !.prefer_small_band = pr[1],
                         !.prefer_low_xoff = pr[2]] :
        swx \in 2..3, srx \in 0..1, srn \in {0},
        k \in Latencies \X {0},
        hys \in {<<Ratio(1, 1), Ratio(3, 2)>>, <<Absolute(1), Absolute(2)>>},
        rng \in {AutoRange, RangeOf(1, 1), RangeOf(4, 5)},
        pr \in BOOLEAN \X BOOLEAN}

\* Replay: flat specifications, and one layered specification
ReplaySpecs ==
    {[DefaultSpec EXCEPT !.fifo_type = "replay", !.horizon = h, !.w_max = wm,
                         !.rtt = rtt, !.atomic_tail = tail] :
        h \in 0..(MaxHorizon + 1), wm \in 0..MaxCap, rtt \in 0..(MaxHorizon + 1),
        tail \in {0, 1}}
    \cup {[DefaultSpec EXCEPT !.fifo_type = "replay", !.layered = TRUE,
                              !.rtt = 1]}
    \cup {[DefaultSpec EXCEPT !.fifo_type = "replay",
                              !.horizon = 2 * ScenarioRtt + 2,
                              !.rtt = ScenarioRtt]}

\* Margin and rounding on top of a specification
Margins(S) ==
    {[s EXCEPT !.margin_type = m[1], !.margin_val = m[2], !.rounding = m[3]] :
        s \in S,
        m \in {<<"percentage", 50, "none">>, <<"percentage", 50, "power2">>,
               <<"absolute", 1, "power2">>, <<"absolute", 3, "none">>}}

\* One specification per solve path whose peak is positive
RvMarginSpecs ==
    Margins({[DefaultSpec EXCEPT !.horizon = MaxHorizon, !.sum_w_max = 2,
                                 !.sum_r_max = srx, !.sum_r_min = srx] :
                srx \in {1, 2}})

ProtocolMarginSpecs ==
    Margins({[DefaultSpec EXCEPT !.fifo_type = "cbfc", !.horizon = MaxHorizon,
                                 !.sum_w_max = 2, !.sum_r_max = 1,
                                 !.cred_init = 2, !.cred_max = 3]}
            \cup {[DefaultSpec EXCEPT !.fifo_type = "xon_xoff",
                                      !.thresholds = th[1], !.xon = th[2],
                                      !.xoff = th[3], !.horizon = MaxHorizon,
                                      !.sum_w_max = 2, !.sum_r_max = 1,
                                      !.atomic_tail = tail] :
                      th \in {<<"manual", 1, 2>>, <<"auto", NONE, NONE>>},
                      tail \in {0, 1}}
            \cup {[DefaultSpec EXCEPT !.fifo_type = "replay",
                                      !.horizon = MaxHorizon, !.rtt = 1,
                                      !.atomic_tail = tail] :
                      tail \in {0, 1}})

\* Specifications the parameter check of their protocol rejects: totals above
\* horizon * cap, a minimum above its maximum, throttle above w_max
DefectiveSpecs ==
    LET Bases == {[DefaultSpec EXCEPT !.horizon = MaxHorizon],
                  [DefaultSpec EXCEPT !.fifo_type = "cbfc",
                                      !.horizon = MaxHorizon,
                                      !.cred_init = 2, !.cred_max = 3],
                  [DefaultSpec EXCEPT !.fifo_type = "xon_xoff",
                                      !.thresholds = "manual", !.xon = 1,
                                      !.xoff = 2, !.horizon = MaxHorizon]}
    IN  {[b EXCEPT !.sum_w_max = t[1], !.sum_w_min = t[2],
                   !.sum_r_max = t[3], !.sum_r_min = t[4]] :
            b \in Bases,
            t \in {<<MaxHorizon + 1, 0, 1, 0>>, <<1, 0, MaxHorizon + 1, 0>>,
                   <<1, 2, 1, 0>>, <<1, 0, 1, 2>>}}
        \cup {[b EXCEPT !.sum_w_max = 1, !.sum_r_max = 1,
                        !.w_throttle_max = 2] :
                 b \in {b \in Bases : b.fifo_type = "xon_xoff"}}

\* Specifications whose totals fit the capacity of the horizon one by one but
\* not one after the other: flat ones, and layered ones whose write and read
\* duty cycles sum to more than 100%
ShortHorizonSpecs ==
    LET Bases == {[DefaultSpec EXCEPT !.fifo_type = "cbfc", !.cred_init = 2,
                                      !.cred_max = 3],
                  [DefaultSpec EXCEPT !.fifo_type = "xon_xoff",
                                      !.thresholds = "manual", !.xon = 1,
                                      !.xoff = 2]}
    IN  {[b EXCEPT !.horizon = MaxHorizon, !.sum_w_max = MaxHorizon,
                   !.sum_r_max = k] : b \in Bases, k \in 1..2}
        \cup {[b EXCEPT !.layered = TRUE, !.horizon = AUTO, !.kmin_blocks = 1,
                        !.write_profile = PlainProfile(2, 1),
                        !.read_profile = PlainProfile(v, 1)] :
                 b \in Bases, v \in 1..2}

Specs ==
    {s \in RvSpecs : s.w_max = 1 /\ s.r_max = 1 /\ s.wr_latency = 0}
    \cup ProtocolMarginSpecs \cup DefectiveSpecs \cup ShortHorizonSpecs
    \cup CbfcSpecs \cup CbfcAutoSpecs
    \cup XonXoffSpecs \cup XonXoffHoldSpecs \cup XonXoffScenarioSpecs
    \cup XonXoffAutoSpecs \cup ReplaySpecs

\* Each specification without a CDC file; the single-rate ones without
\* latency also after a CDC stage
WithCdc(S) ==
    (S \X {NoCdcFile})
    \cup ({s \in S : s.w_max = 1 /\ s.wr_latency = 0 /\ s.rd_latency = 0}
          \X (CdcFiles \ {NoCdcFile}))

\* Inputs of a run, and of a Ready/Valid solve on validated parameters
RunInputs == WithCdc(Specs)
SolveInputs == WithCdc(ValidTraffic(RvSpecs \cup RvMarginSpecs))

(***************************************************************************)
(* Constraint models shared by the CP-SAT solver paths                     *)
(***************************************************************************)
RECURSIVE SchedulesUpTo(_, _, _, _)
\* Values of the first n per-cycle variables: 0 <= v[t] <= cap, gated by
\* v[t] <= cap * mask[t], with the running total at most hi
SchedulesUpTo(n, mask, cap, hi) ==
    IF n = 0 THEN {<<>>}
    ELSE UNION {{Append(s, v) : v \in 0..Min2(cap * mask[n], hi - SumSeq(s))} :
                s \in SchedulesUpTo(n - 1, mask, cap, hi)}

\* Per-cycle variables with lo <= sum <= hi
Schedules(mask, cap, lo, hi) ==
    {s \in SchedulesUpTo(Len(mask), mask, cap, hi) : SumSeq(s) >= lo}

\* The term without its latency: seq[t]
Undelayed(seq, t, latency) == At(seq, t)

\* Term of the occupancy recurrence at cycle t: seq[t - latency], absent
\* (0) while t < latency
Delayed(seq, t, latency) == IF t >= latency THEN At(seq, t - latency) ELSE 0

RECURSIVE occ_evolution(_, _, _, _, _)
\* occ[0..n] fixed by occ[0] == 0 and the recurrence with latencies
occ_evolution(w, r, wr_latency, rd_latency, n) ==
    IF n = 0 THEN <<0>>
    ELSE LET prev == occ_evolution(w, r, wr_latency, rd_latency, n - 1)
             t == n - 1
         IN  Append(prev, At(prev, t) + Delayed(w, t, wr_latency)
                                      - Delayed(r, t, rd_latency))

\* A domain without its lower end
InDomainUpperOnly(seq, lo, hi) == \A i \in 1..Len(seq) : seq[i] <= hi

\* Domain [0, occ_max] of every occ variable
InDomain(seq, lo, hi) == \A i \in 1..Len(seq) : lo <= seq[i] /\ seq[i] <= hi

\* The final occupancy in place of the maximum
PeakOfFinal(occ) == occ[Len(occ)]

\* add_max_equality(peak, occ[1:])
PeakOf(occ) == SeqMax(Tail(occ))

\* Assignments kept by maximize(peak)
MaximizePeak(S) == {s \in S : \A o \in S : o.peak <= s.peak}

\* t_star == sum(t * y[t]) over idx_range = start_index..len(occ)-1; y[i] is
\* the selector of Python index start_index + i - 1
TStarOf(y, start_index) == SumSeq([i \in 1..Len(y) |-> (start_index + i - 1) * y[i]])

\* add_earliest_peak_tiebreak: selector vectors with sum(y) == 1 and
\* y[t] => occ[t] == peak
Selectors(occ, peak, start_index) ==
    {y \in [1..(Len(occ) - start_index) -> {0, 1}] :
        /\ SumSeq(y) = 1
        /\ \A i \in 1..Len(y) : y[i] = 1 => At(occ, start_index + i - 1) = peak}

add_earliest_peak_tiebreak(S, start_index) ==
    UNION {{[s EXCEPT !.y = y, !.t_star = TStarOf(y, start_index)] :
                y \in Selectors(s.occ, s.peak, start_index)} : s \in S}

\* No minimisation: every assignment is kept
AnyTStar(S) == S

\* Assignments kept by minimize(t_star)
MinimizeTStar(S) == {s \in S : \A o \in S : s.t_star <= o.t_star}

\* The two solves of a path: maximise peak, fix it, minimise t_star
TwoPhaseSolve(S) == MinimizeTStar(add_earliest_peak_tiebreak(MaximizePeak(S), 1))

(***************************************************************************)
(* Ready/Valid solver (fifo_depth_ready_valid)                             *)
(***************************************************************************)
\* np.roll(arr, s)
roll(arr, s) ==
    LET n == Len(arr)
        k == s % n
    IN  IF k = 0 THEN arr ELSE SubSeq(arr, n - k + 1, n) \o SubSeq(arr, 1, n - k)

apply_latency(seq, lat, horizon) ==
    IF lat <= 0 THEN seq
    ELSE Rep(0, lat) \o SubSeq(seq, 1, Min2(Len(seq), Max2(0, horizon - lat)))

RECURSIVE TrimFrom(_, _, _)
TrimFrom(seq, target_sum, s) ==
    IF seq = <<>> THEN <<>>
    ELSE IF s >= target_sum THEN <<0>> \o TrimFrom(Tail(seq), target_sum, s)
    ELSE LET take == Min2(seq[1], target_sum - s)
         IN  <<take>> \o TrimFrom(Tail(seq), target_sum, s + take)

trim_to_sum(seq, target_sum) == TrimFrom(seq, target_sum, 0)

RECURSIVE ClampedOcc(_, _, _)
\* occ_seq[0..n] of the analytic path: occ = max(0, occ + w_eff[t] - r_eff[t])
ClampedOcc(w_eff, r_eff, n) ==
    IF n = 0 THEN <<0>>
    ELSE LET prev == ClampedOcc(w_eff, r_eff, n - 1)
             t == n - 1
         IN  Append(prev, Max2(0, At(prev, t) + At(w_eff, t) - At(r_eff, t)))

\* The occupancy left at the end of the horizon in place of the peak
PeakAtEnd(occ_seq, t, peak_here, tstar_here) ==
    <<occ_seq[Len(occ_seq)], Len(occ_seq) - 1>>

RECURSIVE PeakScan(_, _, _, _)
\* (peak_here, tstar_here) after cycles t..horizon-1 of the scan
PeakScan(occ_seq, t, peak_here, tstar_here) ==
    IF t >= Len(occ_seq) - 1 THEN <<peak_here, tstar_here>>
    ELSE IF At(occ_seq, t + 1) > peak_here
         THEN PeakScan(occ_seq, t + 1, At(occ_seq, t + 1), t + 1)
         ELSE PeakScan(occ_seq, t + 1, peak_here, tstar_here)

\* One phase of the sweep: the read mask rolled by s
SweepPhase(p, wv, rv, s) ==
    LET w_base == [i \in 1..Len(wv) |-> p.w_max * wv[i]]
        r_mask_shift == roll(rv, s)
        r_base == [i \in 1..Len(rv) |-> p.r_max * r_mask_shift[i]]
        w_eff == trim_to_sum(apply_latency(w_base, p.wr_latency, p.horizon),
                             p.sum_w_max)
        r_eff == trim_to_sum(apply_latency(r_base, p.rd_latency, p.horizon),
                             p.sum_r_min)
        occ_seq == ClampedOcc(w_eff, r_eff, p.horizon)
        scan == PeakScan(occ_seq, 0, 0, 0)
    IN  [peak |-> scan[1], tstar |-> scan[2], w_eff |-> w_eff, r_eff |-> r_eff,
         occ_seq |-> occ_seq, shift |-> s]

RECURSIVE PhaseSweep(_, _, _, _, _, _)
\* for s in range(overall_period): keep the worst peak, then the earliest
PhaseSweep(p, wv, rv, period, s, best) ==
    IF s >= period THEN best
    ELSE LET cur == SweepPhase(p, wv, rv, s)
         IN  PhaseSweep(p, wv, rv, period, s + 1,
                 IF \/ cur.peak > best.peak
                    \/ (cur.peak = best.peak /\ cur.tstar < best.tstar)
                 THEN cur ELSE best)

_get_results_analysis(p, wv, rv, period) ==
    PhaseSweep(p, wv, rv, period, 0,
               [peak |-> -1, tstar |-> p.horizon + 1, w_eff |-> <<>>,
                r_eff |-> <<>>, occ_seq |-> <<>>, shift |-> 0])

\* Feasible assignments of the general Ready/Valid constraint model
RvCpModel(p, wv, rv) ==
    {[NoSol EXCEPT !.w = wr[1], !.r = wr[2],
                   !.occ = occ_evolution(wr[1], wr[2], p.wr_latency,
                                         p.rd_latency, p.horizon),
                   !.peak = PeakOf(occ_evolution(wr[1], wr[2], p.wr_latency,
                                                 p.rd_latency, p.horizon))] :
        wr \in {x \in Schedules(wv, p.w_max, p.sum_w_min, p.sum_w_max)
                      \X Schedules(rv, p.r_max, p.sum_r_min, p.sum_r_max) :
                   InDomain(occ_evolution(x[1], x[2], p.wr_latency, p.rd_latency,
                                          p.horizon), 0, p.sum_w_max)}}

_get_results_cp_sat(p, wv, rv) == TwoPhaseSolve(RvCpModel(p, wv, rv))

\* ReadyValidSolver._adjust_results on the depth
RvAdjustDepth(depth, p, base_sync) ==
    round_value(
        apply_margin(IF base_sync > 0 THEN depth + base_sync ELSE depth,
                     p.margin_type, p.margin_val),
        p.rounding)

(***************************************************************************)
(* CBFC solver (fifo_depth_cbfc), user-provided credits                    *)
(***************************************************************************)
\* CbfcParams.check after FifoParams.check
CbfcParamsCheck(p) ==
    IF FifoParamsCheck(p) # "" THEN FifoParamsCheck(p)
    ELSE IF /\ p.cred_max # AUTO /\ p.cred_init # AUTO
            /\ (p.cred_max < 0 \/ p.cred_init < 0 \/ p.cred_init > p.cred_max)
         THEN "ValueError"
    ELSE IF p.cred_gran <= 0 \/ p.cred_ret_latency < 0 \/ p.cred_margin_val < 0
         THEN "ValueError"
    ELSE ""

\* ret[t] of the capacity profile: cred_gran * r_cap[t - rd_latency - cred_ret_latency]
CapReturn(p, rv, t) ==
    LET v == t - p.cred_ret_latency
        u == v - p.rd_latency
    IN  p.cred_gran * (IF v >= 0 /\ u >= 0 THEN p.r_max * At(rv, u) ELSE 0)

\* cw - cr after cycle t
CapImbalance(p, wv, rv, t) ==
    SumSeq([i \in 1..(t + 1) |-> p.w_max * wv[i] - CapReturn(p, rv, i - 1)])

\* Credit lower bounds from the capacity profiles
_compute_credit_bounds_from_caps(p, wv, rv) ==
    LET diffs == {CapImbalance(p, wv, rv, t) : t \in 0..(p.horizon - 1)}
        max_deficit == SetMax(diffs \cup {0})
        max_surplus == SetMax({-d : d \in diffs} \cup {0})
    IN  [cred_init_lb |-> Max2(0, max_deficit),
         cred_max_lb |-> Max2(0, max_deficit) + max_surplus,
         max_deficit |-> max_deficit, max_surplus |-> max_surplus]

\* A check of cred_init alone
UserCredInitTooSmall(p, wv, rv) ==
    p.cred_init < _compute_credit_bounds_from_caps(p, wv, rv).cred_init_lb

\* _check_user_credits: TRUE when SystemExit is raised
UserCreditsTooSmall(p, wv, rv) ==
    LET b == _compute_credit_bounds_from_caps(p, wv, rv)
    IN  p.cred_init < b.cred_init_lb \/ p.cred_max < b.cred_max_lb

\* The startup bound alone
ThroughputStartupOnly(p, cred_init_eff) ==
    \E t \in 1..Min2(p.horizon, 32) :
        cred_init_eff * p.horizon < p.sum_r_min * t

\* min(ub_asymp, ub_startup, sum_w_max / horizon) < r_req, with
\* r_req = sum_r_min / horizon, compared as exact fractions
ThroughputBelowRequired(p, cred_init_eff) ==
    LET h == p.horizon
        lat == p.rd_latency + p.cred_ret_latency
        t_max == Min2(h, Max2(32, 8 * (lat + 1)))
    IN  \/ Min2(p.sum_w_max, p.sum_r_max) < p.sum_r_min
        \/ \E t \in 1..t_max :
              cred_init_eff * h + p.cred_gran * p.sum_r_min * Max2(0, t - lat)
                  < p.sum_r_min * t
        \/ p.sum_w_max < p.sum_r_min

\* Credits returned in the cycle of the read: cred_gran * r[t]
RetSeqNoLatency(p, r) == [i \in 1..p.horizon |-> p.cred_gran * r[i]]

\* ret[t] == cred_gran * r_eff[t - cred_ret_latency] when that entry exists
RetSeq(p, r) ==
    [i \in 1..p.horizon |->
        LET src_idx == (i - 1) - p.cred_ret_latency
        IN  IF src_idx >= 0 /\ src_idx >= p.rd_latency
            THEN p.cred_gran * At(r, src_idx - p.rd_latency)
            ELSE 0]

RECURSIVE CredSeqNoReturn(_, _, _, _)
\* Credits that are spent and never returned
CredSeqNoReturn(cred_init, w, ret, n) ==
    IF n = 0 THEN <<cred_init>>
    ELSE LET prev == CredSeqNoReturn(cred_init, w, ret, n - 1)
         IN  Append(prev, At(prev, n - 1) - At(w, n - 1))

RECURSIVE CredSeq(_, _, _, _)
\* cred[0..n] fixed by cred[0] == cred_init and cred[t+1] == cred[t] - w[t] + ret[t]
CredSeq(cred_init, w, ret, n) ==
    IF n = 0 THEN <<cred_init>>
    ELSE LET prev == CredSeq(cred_init, w, ret, n - 1)
         IN  Append(prev, At(prev, n - 1) - At(w, n - 1) + At(ret, n - 1))

\* One assignment of the CBFC model from its free variables w and r
CbfcAssignment(p, cred_init, w, r) ==
    LET occ == occ_evolution(w, r, p.wr_latency, p.rd_latency, p.horizon)
        ret == RetSeq(p, r)
    IN  [NoSol EXCEPT !.w = w, !.r = r, !.occ = occ, !.peak = PeakOf(occ),
                      !.ret = ret, !.cred = CredSeq(cred_init, w, ret, p.horizon)]

\* Feasible assignments of the CBFC constraint model
CbfcCpModel(p, wv, rv, cred_init, cred_max, occ_max) ==
    {s \in {CbfcAssignment(p, cred_init, wr[1], wr[2]) :
                wr \in Schedules(wv, p.w_max, p.sum_w_min, p.sum_w_max)
                       \X Schedules(rv, p.r_max, p.sum_r_min, p.sum_r_max)} :
        /\ InDomain(s.occ, 0, occ_max)
        /\ InDomain(s.cred, 0, cred_max)
        /\ InDomain(s.ret, 0, p.r_max * p.cred_gran)
        /\ \A t \in 0..(p.horizon - 1) : At(s.w, t) <= At(s.cred, t)}

\* CbfcSolver.adjust_results on results made from the witness
CbfcAdjustResults(res, p, base_sync) ==
    LET ci == IF base_sync > 0 THEN res.cred_init + base_sync ELSE res.cred_init
        cm == IF base_sync > 0 THEN res.cred_max + base_sync ELSE res.cred_max
        depth == round_value(
                    apply_margin(IF base_sync > 0 THEN res.depth + base_sync
                                 ELSE res.depth,
                                 p.margin_type, p.margin_val),
                    p.rounding)
        total_w == SumSeq(res.w_seq)
        denom == p.horizon * Max2(p.w_max, 1)
        \* throughput and target as fractions over denom, clamped to [0, 1]
        thr_num == Max2(0, Min2(denom, total_w))
        target_num == Max2(0, Min2(denom, p.sum_r_min))
        below == thr_num < target_num
    IN  [res EXCEPT !.depth = depth,
                    !.cred_init = Min2(Max2(ci, 0), depth),
                    !.cred_max = Min2(Max2(cm, 0), depth),
                    !.thr_num = thr_num, !.thr_den = denom,
                    !.basic_checks_pass = IF below THEN FALSE ELSE @,
                    !.msg = IF below THEN "throughput below target" ELSE @]

\* CbfcResults.check(occ_max)
CbfcResultsCheck(res, occ_max) ==
    LET base == FifoResultsCheck(res, occ_max)
    IN  IF base.occ_peak <= 1 /\ (base.cred_max # 0 \/ base.cred_init # 0)
        THEN [base EXCEPT !.msg = "hardware guidance"]
        ELSE base

(***************************************************************************)
(* CBFC solver, automatic credits                                          *)
(***************************************************************************)
max_wait_to_next_valid_slot(mask) ==
    LET n == Len(mask)
        ones(t) == {i \in t..(n - 1) : At(mask, i) = 1}
        wait(t) == IF ones(t) = {} THEN n - t ELSE Max2(0, SetMin(ones(t)) - t)
    IN  SetMax({wait(t) : t \in 0..(n - 1)} \cup {0})

\* The seed pair (q, q)
_quick_cap_auto_credits(p, rv) ==
    LET cushion == max_wait_to_next_valid_slot(rv)
        lat == p.rd_latency + p.cred_ret_latency
        phase_lat_cushion == p.r_max * lat + cushion
        tail_loss == p.r_max * lat
        needed_backlog ==
            Max2(0, p.sum_w_min - p.cred_gran * p.sum_r_min
                    + p.cred_gran * tail_loss)
        base == Max2(p.cred_gran,
                     Min2(Max2(phase_lat_cushion, needed_backlog), p.sum_w_max))
        q == ((base + p.cred_gran - 1) \div p.cred_gran) * p.cred_gran
    IN  <<q, q>>

\* Some (w, r) meets the caps, the sums and the credit pool recurrence
\* under (ci, cm); there is no occupancy variable in this model
_feasible_with_credits(p, wv, rv, ci, cm) ==
    \E w \in Schedules(wv, p.w_max, p.sum_w_min, p.sum_w_max) :
        \E r \in Schedules(rv, p.r_max, p.sum_r_min, p.sum_r_max) :
            LET ret == RetSeq(p, r)
                cred == CredSeq(ci, w, ret, p.horizon)
            IN  /\ InDomain(cred, 0, cm)
                /\ InDomain(ret, 0, p.r_max * p.cred_gran)
                /\ \A t \in 0..(p.horizon - 1) : At(w, t) <= At(cred, t)

RECURSIVE MinCredInitSearch(_, _, _, _, _, _, _)
\* The first while loop of _minimize_auto_credits: best_ci, NONE if never set
MinCredInitSearch(p, wv, rv, cm_lb, lo, hi, best_ci) ==
    IF lo > hi THEN best_ci
    ELSE LET mid == (lo + hi) \div 2
         IN  IF _feasible_with_credits(p, wv, rv, mid, Max2(cm_lb, mid))
             THEN MinCredInitSearch(p, wv, rv, cm_lb, lo, mid - 1, mid)
             ELSE MinCredInitSearch(p, wv, rv, cm_lb, mid + 1, hi, best_ci)

RECURSIVE MinCredMaxSearch(_, _, _, _, _, _, _)
\* The second while loop: best_cm given best_ci
MinCredMaxSearch(p, wv, rv, best_ci, lo, hi, best_cm) ==
    IF lo > hi THEN best_cm
    ELSE LET mid == (lo + hi) \div 2
         IN  IF _feasible_with_credits(p, wv, rv, best_ci, mid)
             THEN MinCredMaxSearch(p, wv, rv, best_ci, lo, mid - 1, mid)
             ELSE MinCredMaxSearch(p, wv, rv, best_ci, mid + 1, hi, best_cm)

_minimize_auto_credits(p, wv, rv) ==
    LET b == _compute_credit_bounds_from_caps(p, wv, rv)
        ub == Max2(p.sum_w_max, b.cred_max_lb)
        best_ci == MinCredInitSearch(p, wv, rv, b.cred_max_lb,
                                     b.cred_init_lb, ub, NONE)
    IN  IF best_ci = NONE THEN <<p.cred_gran, p.sum_w_max>>
        ELSE <<best_ci,
               MinCredMaxSearch(p, wv, rv, best_ci,
                                Max2(b.cred_max_lb, best_ci), ub, NONE)>>

_adaptive_headroom(p, rv) ==
    LET raw == Max2(1, max_wait_to_next_valid_slot(rv))
    IN  Min2(2 * raw, Max2(1, p.sum_w_max \div 16))

\* (cred_init, cred_max) with every auto value resolved
_resolve_auto_credits(p, wv, rv) ==
    LET auto == p.cred_init = AUTO \/ p.cred_max = AUTO
        Margined(v) == round_value(apply_margin(v, p.cred_margin_type,
                                                p.cred_margin_val),
                                   p.cred_rounding)
        WithHeadroom(ci1, cm1, hr) ==
            <<IF p.cred_init = AUTO THEN ci1 + hr ELSE ci1,
              IF p.cred_max = AUTO THEN cm1 + hr ELSE cm1>>
        Rounded(ci1, cm0) ==
            WithHeadroom(ci1, Max2(Margined(cm0), ci1),
                         IF auto THEN _adaptive_headroom(p, rv)
                         ELSE p.cred_headroom)
        Raw(ci0, cm_q) ==
            Rounded(Margined(ci0),
                    IF ~auto THEN p.cred_max
                    ELSE IF p.cred_max = AUTO THEN cm_q
                    ELSE Max2(p.cred_max, ci0))
        Resolved(q) ==
            Raw(IF ~auto \/ p.cred_init # AUTO THEN p.cred_init ELSE q[1],
                q[2])
    IN  Resolved(IF p.cred_auto_optimize
                 THEN _minimize_auto_credits(p, wv, rv)
                 ELSE _quick_cap_auto_credits(p, rv))

(***************************************************************************)
(* XON/XOFF solver (fifo_depth_xon_xoff), manual thresholds                *)
(***************************************************************************)
\* XonXoffModel.check_threshold_requirements
XonXoffModelValid(f) ==
    IF f.thresholds = "manual" THEN f.xon # NONE /\ f.xoff # NONE
    ELSE LET hmin == f.hysteresis[1]
             hmax == f.hysteresis[2]
         IN  /\ hmin.num >= 0 /\ hmax.num >= 0
             /\ hmin.num * hmax.den <= hmax.num * hmin.den

\* XonXoffParams.check after FifoParams.check
XonXoffParamsCheck(p) ==
    IF FifoParamsCheck(p) # "" THEN FifoParamsCheck(p)
    ELSE IF p.atomic_tail < 0 \/ p.react_latency < 0 \/ p.resume_latency < 0
            \/ p.w_throttle_max < 0 THEN "ValueError"
    ELSE IF p.w_throttle_max > p.w_max THEN "ValueError"
    ELSE IF p.xon # NONE /\ p.xoff # NONE /\ ~(0 <= p.xon /\ p.xon < p.xoff)
         THEN "ValueError"
    ELSE ""

\* enter_b: occ[t] >= xoff; exit_b: occ[t] <= xon (both reified), as 0/1
enter_b(occ, t, xoff) == IF At(occ, t) >= xoff THEN 1 ELSE 0
exit_b(occ, t, xon) == IF At(occ, t) <= xon THEN 1 ELSE 0

\* A pause flag that is never set
InPauseNever(occ, xon, xoff, react_latency, n) == {[i \in 1..(n + 1) |-> 0]}

RECURSIVE InPauseNoHold(_, _, _, _, _)
\* A pause flag that follows enter_b alone
InPauseNoHold(occ, xon, xoff, react_latency, n) ==
    IF n = 0 THEN {<<0>>}
    ELSE {Append(ip, enter_b(occ, n - 1, xoff)) :
             ip \in InPauseNoHold(occ, xon, xoff, react_latency, n - 1)}

RECURSIVE InPauseLate(_, _, _, _, _)
\* A pause flag bound by the four hysteresis bounds alone, free to rise the
\* cycle after occ reaches xoff whatever react_latency is
InPauseLate(occ, xon, xoff, react_latency, n) ==
    IF n = 0 THEN {<<0>>}
    ELSE LET t == n - 1
             en == enter_b(occ, t, xoff)
             ex == exit_b(occ, t, xon)
         IN  UNION {{Append(ip, b) :
                        b \in {c \in {0, 1} :
                                  /\ c >= en
                                  /\ c >= At(ip, t) - ex
                                  /\ c <= At(ip, t) + en
                                  /\ c <= 1 - ex + en}} :
                    ip \in InPauseLate(occ, xon, xoff, react_latency, n - 1)}

RECURSIVE InPauseSeqs(_, _, _, _, _)
\* Values of in_pause[0..n] allowed by in_pause[0] == 0, the four
\* linearised hysteresis bounds of each cycle and, when react_latency == 0,
\* in_pause[t] >= enter_b
InPauseSeqs(occ, xon, xoff, react_latency, n) ==
    IF n = 0 THEN {<<0>>}
    ELSE LET t == n - 1
             en == enter_b(occ, t, xoff)
             ex == exit_b(occ, t, xon)
         IN  UNION {{Append(ip, b) :
                        b \in {c \in {0, 1} :
                                  /\ c >= en
                                  /\ c >= At(ip, t) - ex
                                  /\ c <= At(ip, t) + en
                                  /\ c <= 1 - ex + en}} :
                    ip \in {q \in InPauseSeqs(occ, xon, xoff, react_latency, n - 1) :
                               react_latency = 0 => At(q, t) >= en}}

\* throttle_active[t] == in_pause[t - react_latency], without the hold
ThrottleNoHold(p, in_pause) ==
    [i \in 1..p.horizon |->
        IF (i - 1) - p.react_latency >= 0
        THEN At(in_pause, (i - 1) - p.react_latency) ELSE 0]

\* throttle_active[t] <=> OR(in_pause[t - react_latency - k], k = 0..resume_latency),
\* terms with a negative index dropped
ThrottleSeq(p, in_pause) ==
    [i \in 1..p.horizon |->
        LET base_idx == (i - 1) - p.react_latency
            sources == {j \in {base_idx - k : k \in 0..Max2(0, p.resume_latency)} :
                           j >= 0}
        IN  IF \E j \in sources : At(in_pause, j) = 1 THEN 1 ELSE 0]

\* Assignments of the pause variables for given w and r
XonAssignments(p, w, r) ==
    LET occ == occ_evolution(w, r, p.wr_latency, p.rd_latency, p.horizon)
    IN  IF ~InDomain(occ, 0, p.sum_w_max) THEN {}
        ELSE {[NoSol EXCEPT !.w = w, !.r = r, !.occ = occ, !.peak = PeakOf(occ),
                            !.in_pause = ip,
                            !.throttle_active = ThrottleSeq(p, ip)] :
                 ip \in InPauseSeqs(occ, p.xon, p.xoff, p.react_latency, p.horizon)}

\* Feasible assignments of one XON/XOFF solve; throughput_abs_req and
\* peak_ub are NONE when the sweep has not set them
XonXoffCpModel(p, wv, rv, throughput_abs_req, peak_ub) ==
    {s \in UNION {XonAssignments(p, wr[1], wr[2]) :
                     wr \in Schedules(wv, p.w_max,
                                      IF throughput_abs_req = NONE THEN 0
                                      ELSE throughput_abs_req,
                                      p.sum_w_max)
                            \X Schedules(rv, p.r_max, p.sum_r_min, p.sum_r_max)} :
        /\ \A t \in 0..(p.horizon - 1) :
              At(s.throttle_active, t) = 1 => At(s.w, t) <= p.w_throttle_max
        /\ peak_ub # NONE => s.peak <= peak_ub}

\* XonXoffSolver._adjust_results
XonXoffAdjustResults(res, p, base_sync) ==
    LET depth == round_value(
                    apply_margin(
                        IF base_sync > 0
                        THEN res.depth + p.atomic_tail + base_sync
                        ELSE res.depth + p.atomic_tail,
                        p.margin_type, p.margin_val),
                    p.rounding)
        xon == IF base_sync > 0 THEN res.xon + base_sync ELSE res.xon
        xoff == IF base_sync > 0 THEN res.xoff + base_sync ELSE res.xoff
        denom == p.horizon * Max2(p.w_max, 1)
    IN  [res EXCEPT !.depth = depth,
                    !.xon = Min2(Max2(xon, 0), depth),
                    !.xoff = Min2(Max2(xoff, 0), depth),
                    !.thr_num = Max2(0, Min2(denom, SumSeq(res.w_seq))),
                    !.thr_den = denom]

\* XonXoffResults.check(occ_max, throughput_target); the target is a
\* fraction target_num / thr_den here, NONE when no numeric target is set
XonXoffResultsCheck(res, occ_max, target_num) ==
    LET base == FifoResultsCheck(res, occ_max)
    IN  IF target_num = NONE THEN base
        ELSE IF base.thr_num < Max2(0, Min2(base.thr_den, target_num))
        THEN [base EXCEPT !.basic_checks_pass = FALSE,
                          !.msg = "Throughput target not met"]
        ELSE base

(***************************************************************************)
(* Replay solver (fifo_depth_replay)                                       *)
(***************************************************************************)
\* ReplayModel: horizon, w_max, atomic_tail and rtt are NonNegativeInt
ReplayModelValid(f) ==
    f.margin_val >= 0 /\ f.horizon >= 0 /\ f.w_max >= 0 /\ f.atomic_tail >= 0
    /\ f.rtt >= 0

\* FifoBaseParams.check followed by ReplayParams.check
ReplayParamsCheck(p) ==
    IF p.margin_val < 0 THEN "ValueError"
    ELSE IF p.horizon <= 0 THEN "ValueError"
    ELSE IF p.w_max < 0 THEN "ValueError"
    ELSE IF p.atomic_tail < 0 THEN "ValueError"
    ELSE IF p.rtt <= 0 THEN "ValueError"
    ELSE IF p.rtt > p.horizon THEN "ValueError"
    ELSE ""

\* rtt_eff = rtt + rd_sync_delay
ReplayRttEff(p, rd_sync) == p.rtt + (IF rd_sync > 0 THEN rd_sync ELSE 0)

\* peak_analytic = min(rtt_eff, horizon - rtt_eff) * w_max
peak_analytic(p, rtt_eff) == Min2(rtt_eff, p.horizon - rtt_eff) * p.w_max

\* Acknowledgements that arrive one cycle after rtt_eff
AckLate(w, rtt_eff) == [i \in 1..Len(w) |-> Delayed(w, i - 1, rtt_eff + 1)]

\* a[t] == w[t - rtt_eff] if t >= rtt_eff else 0
AckSeq(w, rtt_eff) == [i \in 1..Len(w) |-> Delayed(w, i - 1, rtt_eff)]

\* An inflight model that neither forbids sends in the last rtt_eff cycles
\* nor requires infl[horizon] == 0
ReplayCpModelNoDrain(p, rtt_eff) ==
    LET infl_max == Min2(rtt_eff, p.horizon - rtt_eff) * p.w_max
    IN  {s \in {LET a == AckSeq(w, rtt_eff)
                    infl == occ_evolution(w, a, 0, 0, p.horizon)
                IN  [NoSol EXCEPT !.w = w, !.r = a, !.occ = infl,
                                  !.peak = PeakOf(infl)] :
                    w \in [1..p.horizon -> 0..p.w_max]} :
            /\ InDomain(s.occ, 0, infl_max)
            /\ InDomain(s.r, 0, p.w_max)}

\* Feasible assignments of the inflight model: no sends in the last rtt_eff
\* cycles, infl in [0, infl_max], infl[horizon] == 0
ReplayCpModel(p, rtt_eff) ==
    LET infl_max == peak_analytic(p, rtt_eff)
        sends == {w \in [1..p.horizon -> 0..p.w_max] :
                     \A t \in Max2(0, p.horizon - rtt_eff)..(p.horizon - 1) :
                         At(w, t) = 0}
    IN  {s \in {LET a == AckSeq(w, rtt_eff)
                    infl == occ_evolution(w, a, 0, 0, p.horizon)
                IN  [NoSol EXCEPT !.w = w, !.r = a, !.occ = infl,
                                  !.peak = PeakOf(infl)] : w \in sends} :
            /\ InDomain(s.occ, 0, infl_max)
            /\ InDomain(s.r, 0, p.w_max)
            /\ At(s.occ, p.horizon) = 0}

\* ReplaySolver._adjust_results
\* An adjustment that rounds before it applies the margin
ReplayAdjustRoundFirst(peak, p, base_sync) ==
    apply_margin(
        round_value(IF base_sync > 0 THEN peak + p.atomic_tail + base_sync
                    ELSE peak + p.atomic_tail,
                    p.rounding),
        p.margin_type, p.margin_val)

ReplayAdjustDepth(peak, p, base_sync) ==
    round_value(
        apply_margin(
            IF base_sync > 0 THEN peak + p.atomic_tail + base_sync
            ELSE peak + p.atomic_tail,
            p.margin_type, p.margin_val),
        p.rounding)

(***************************************************************************)
(* Steps of FifoSolver.run                                                 *)
(***************************************************************************)
\* model_class.model_validate: every NonNegativeInt field is >= 0
ModelValid(f) ==
    IF f.fifo_type = "replay" THEN ReplayModelValid(f) ELSE
    /\ f.margin_val >= 0 /\ f.horizon >= 0 /\ f.w_max >= 0 /\ f.r_max >= 0
    /\ f.sum_w_min >= 0 /\ f.sum_w_max >= 0 /\ f.sum_r_min >= 0
    /\ f.sum_r_max >= 0 /\ f.wr_latency >= 0 /\ f.rd_latency >= 0
    /\ f.fifo_type = "xon_xoff" => XonXoffModelValid(f)

adjust_rd_latency_for_cdc(p, cycles) ==
    IF cycles > 0 THEN [p EXCEPT !.rd_latency = @ + cycles] ELSE p

\* params.check() of the protocol's parameter class
ParamsCheck(p) ==
    IF p.fifo_type = "cbfc" THEN CbfcParamsCheck(p)
    ELSE IF p.fifo_type = "xon_xoff" THEN XonXoffParamsCheck(p)
    ELSE IF p.fifo_type = "replay" THEN ReplayParamsCheck(p)
    ELSE FifoParamsCheck(p)

\* results.check(**results_check_args) of the protocol's results class
ResultsCheck(res, args, fifo_type) ==
    IF fifo_type = "cbfc" THEN CbfcResultsCheck(res, args.occ_max)
    ELSE IF fifo_type = "xon_xoff"
    THEN XonXoffResultsCheck(res, args.occ_max, args.throughput_target)
    ELSE FifoResultsCheck(res, args.occ_max)

\* write_valid or [1] * horizon
ValidsOrOnes(mask, horizon) == IF mask # <<>> THEN mask ELSE Rep(1, horizon)

MasksCheck(wv, rv, horizon) ==
    IF Len(wv) # horizon \/ Len(rv) # horizon THEN "ValueError"
    ELSE IF \E i \in 1..Len(wv) : wv[i] \notin {0, 1} THEN "ValueError"
    ELSE IF \E i \in 1..Len(rv) : rv[i] \notin {0, 1} THEN "ValueError"
    ELSE ""

\* get_cli and get_spec on one of the given inputs
GetSpecFrom(Inputs) ==
    /\ pc = "get_spec"
    /\ \E in \in Inputs :
        /\ spec' = in[1]
        /\ cdc_ctx' = _get_cdc_ctx(in[2])
        /\ IF in[1].fifo_type = "replay" /\ in[1].layered
           THEN Raise("ValueError")
           ELSE pc' = "get_flat_spec" /\ err' = err
    /\ UNCHANGED calls
    /\ UNCHANGED main_vars
    /\ UNCHANGED dv_vars
    /\ UNCHANGED cdc_vars
    /\ UNCHANGED <<flat_spec, overall_period, write_valid, read_valid, params,
                   results, results_check_args, cred_bounds, sol, saved>>

GetSpec == GetSpecFrom(RunInputs)

\* The two calls of _make_one_period_profile in compile_layered_spec
ProfileCalls(raw) ==
    <<[fn |-> "_profile_from_spec", val |-> raw.write_profile,
       mode |-> "write_congestion", margin_val |-> 0,
       ret |-> _profile_from_spec(raw.write_profile, "write_congestion")],
      [fn |-> "_profile_from_spec", val |-> raw.read_profile,
       mode |-> "read_congestion", margin_val |-> 0,
       ret |-> _profile_from_spec(raw.read_profile, "read_congestion")]>>

\* get_unique_keys and get_flat_spec: the protocol's own keys stay in flat_spec
GetFlatSpec ==
    /\ pc = "get_flat_spec"
    /\ flat_spec' = FlatSpecOf(spec)
    /\ IF spec.layered
       THEN LET c == compile_layered_spec(spec)
            IN  /\ overall_period' = c.overall_period
                /\ write_valid' = c.write_valid
                /\ read_valid' = c.read_valid
                /\ calls' = ProfileCalls(spec)
       ELSE /\ overall_period' = spec.horizon
            /\ UNCHANGED <<write_valid, read_valid, calls>>
    /\ pc' = "get_model"
    /\ UNCHANGED main_vars
    /\ UNCHANGED dv_vars
    /\ UNCHANGED cdc_vars
    /\ UNCHANGED <<spec, cdc_ctx, params, results, results_check_args,
                   cred_bounds, sol, saved, err>>

\* get_model, log_model and check_model
GetModel ==
    /\ pc = "get_model"
    /\ IF ModelValid(flat_spec) THEN pc' = "get_params" /\ err' = err
       ELSE Raise("ValidationError")
    /\ UNCHANGED calls
    /\ UNCHANGED main_vars
    /\ UNCHANGED dv_vars
    /\ UNCHANGED cdc_vars
    /\ UNCHANGED <<spec, cdc_ctx, flat_spec, overall_period, write_valid,
                   read_valid, params, results, results_check_args,
                   cred_bounds, sol, saved>>

\* get_params of the protocol's solver class: FifoSolver.get_params sets
\* self.params, then the override adjusts rd_latency.  ReadyValidSolver reads
\* self.wptr_cdc_cycles_in_wr, an attribute FifoSolver does not define.
GetParams ==
    /\ pc = "get_params"
    /\ IF flat_spec.fifo_type = "ready_valid"
       THEN params' = flat_spec /\ Raise("AttributeError")
       ELSE /\ params' = IF flat_spec.fifo_type \in {"cbfc", "xon_xoff"}
                         THEN adjust_rd_latency_for_cdc(flat_spec,
                                                        rd_sync_cycles_in_wr)
                         ELSE flat_spec
            /\ pc' = "check_params" /\ err' = err
    /\ UNCHANGED calls
    /\ UNCHANGED main_vars
    /\ UNCHANGED dv_vars
    /\ UNCHANGED cdc_vars
    /\ UNCHANGED <<spec, cdc_ctx, flat_spec, overall_period, write_valid,
                   read_valid, results, results_check_args, cred_bounds, sol,
                   saved>>

\* log_params and check_params
CheckParams ==
    /\ pc = "check_params"
    /\ IF ParamsCheck(params) = "" THEN pc' = "get_valids" /\ err' = err
       ELSE Raise(ParamsCheck(params))
    /\ UNCHANGED calls
    /\ UNCHANGED main_vars
    /\ UNCHANGED dv_vars
    /\ UNCHANGED cdc_vars
    /\ UNCHANGED <<spec, cdc_ctx, flat_spec, overall_period, write_valid,
                   read_valid, params, results, results_check_args,
                   cred_bounds, sol, saved>>

GetValids ==
    /\ pc = "get_valids"
    /\ IF params.fifo_type = "replay"
       THEN UNCHANGED <<write_valid, read_valid>>
       ELSE /\ write_valid' = ValidsOrOnes(write_valid, params.horizon)
            /\ read_valid' = ValidsOrOnes(read_valid, params.horizon)
    /\ pc' = "check_valids"
    /\ UNCHANGED calls
    /\ UNCHANGED main_vars
    /\ UNCHANGED dv_vars
    /\ UNCHANGED cdc_vars
    /\ UNCHANGED <<spec, cdc_ctx, flat_spec, overall_period, params, results,
                   results_check_args, cred_bounds, sol, saved, err>>

CheckValids ==
    /\ pc = "check_valids"
    /\ IF params.fifo_type = "replay" THEN pc' = "get_results" /\ err' = err
       ELSE IF MasksCheck(write_valid, read_valid, params.horizon) = ""
       THEN pc' = "get_results" /\ err' = err
       ELSE Raise(MasksCheck(write_valid, read_valid, params.horizon))
    /\ UNCHANGED calls
    /\ UNCHANGED main_vars
    /\ UNCHANGED dv_vars
    /\ UNCHANGED cdc_vars
    /\ UNCHANGED <<spec, cdc_ctx, flat_spec, overall_period, write_valid,
                   read_valid, params, results, results_check_args,
                   cred_bounds, sol, saved>>

(***************************************************************************)
(* get_results of ReadyValidSolver                                         *)
(***************************************************************************)
\* ReadyValidResults.make / extract_witness: depth = occ_peak = peak
MakeResults(s, depth) ==
    [NoResults EXCEPT !.set = TRUE, !.depth = depth, !.occ_peak = s.peak,
                      !.w_seq = s.w, !.r_seq = s.r, !.occ_seq = s.occ]

GetResultsRvAnalysis ==
    /\ pc = "get_results"
    /\ params.fifo_type = "ready_valid"
    /\ is_balanced(params)
    /\ LET best == _get_results_analysis(params, write_valid, read_valid,
                                         overall_period)
       IN  /\ results' =
                [NoResults EXCEPT
                    !.set = TRUE,
                    !.depth = RvAdjustDepth(best.peak, params, base_sync_fifo_depth),
                    !.occ_peak = best.peak, !.w_seq = best.w_eff,
                    !.r_seq = best.r_eff, !.occ_seq = best.occ_seq]
           /\ sol' = [NoSol EXCEPT !.path = "rv_analysis", !.w = best.w_eff,
                                   !.r = best.r_eff, !.occ = best.occ_seq,
                                   !.peak = best.peak, !.t_star = best.tstar]
    /\ results_check_args' = [NoCheckArgs EXCEPT !.occ_max = params.sum_w_max]
    /\ pc' = "check_results"
    /\ UNCHANGED calls
    /\ UNCHANGED main_vars
    /\ UNCHANGED dv_vars
    /\ UNCHANGED cdc_vars
    /\ UNCHANGED <<spec, cdc_ctx, flat_spec, overall_period, write_valid,
                   read_valid, params, cred_bounds, saved, err>>

GetResultsRvCpSat ==
    /\ pc = "get_results"
    /\ params.fifo_type = "ready_valid"
    /\ ~is_balanced(params)
    /\ LET optimal == _get_results_cp_sat(params, write_valid, read_valid)
       IN  IF optimal = {}
           THEN /\ Raise("RuntimeError")
                /\ UNCHANGED <<results, sol, results_check_args>>
           ELSE /\ \E s \in optimal :
                    /\ results' = MakeResults(s,
                            RvAdjustDepth(s.peak, params, base_sync_fifo_depth))
                    /\ sol' = [s EXCEPT !.path = "rv_cp_sat"]
                /\ results_check_args' =
                        [NoCheckArgs EXCEPT !.occ_max = params.sum_w_max]
                /\ pc' = "check_results" /\ err' = err
    /\ UNCHANGED calls
    /\ UNCHANGED main_vars
    /\ UNCHANGED dv_vars
    /\ UNCHANGED cdc_vars
    /\ UNCHANGED <<spec, cdc_ctx, flat_spec, overall_period, write_valid,
                   read_valid, params, cred_bounds, saved>>

(***************************************************************************)
(* get_results of CbfcSolver                                               *)
(***************************************************************************)
GetResultsCbfc ==
    /\ pc = "get_results"
    /\ params.fifo_type = "cbfc"
    /\ \E auto \in {params.cred_init = AUTO \/ params.cred_max = AUTO} :
       IF ~auto /\ UserCreditsTooSmall(params, write_valid, read_valid)
       THEN /\ Raise("SystemExit")
            /\ UNCHANGED <<results, sol, results_check_args, cred_bounds>>
       ELSE
       \E eff \in {IF auto
                   THEN _resolve_auto_credits(params, write_valid, read_valid)
                   ELSE <<params.cred_init, params.cred_max>>} :
       \E cred_init \in {eff[1]}, cred_max \in {eff[2]} :
       \E b \in {_compute_credit_bounds_from_caps(params, write_valid,
                                                  read_valid)} :
           IF ThroughputBelowRequired(params, cred_init)
           THEN /\ Raise("SystemExit")
                /\ cred_bounds' = b
                /\ UNCHANGED <<results, sol, results_check_args>>
           ELSE
           \E occ_max \in {Min2(params.sum_w_max, cred_init + b.max_deficit)} :
           \E optimal \in {TwoPhaseSolve(
                               CbfcCpModel(params, write_valid, read_valid,
                                           cred_init, cred_max, occ_max))} :
           IF optimal = {}
           THEN /\ Raise("RuntimeError")
                /\ cred_bounds' = b
                /\ UNCHANGED <<results, sol, results_check_args>>
           ELSE /\ \E s \in optimal :
                    /\ results' = CbfcAdjustResults(
                            [MakeResults(s, s.peak) EXCEPT
                                !.cred_max = cred_max,
                                !.cred_init = cred_init],
                            params, base_sync_fifo_depth)
                    /\ sol' = [s EXCEPT !.path = "cbfc"]
                /\ cred_bounds' = b
                /\ results_check_args' = [NoCheckArgs EXCEPT !.occ_max = occ_max]
                /\ pc' = "check_results" /\ err' = err
    /\ UNCHANGED calls
    /\ UNCHANGED main_vars
    /\ UNCHANGED dv_vars
    /\ UNCHANGED cdc_vars
    /\ UNCHANGED <<spec, cdc_ctx, flat_spec, overall_period, write_valid,
                   read_valid, params, saved>>

(***************************************************************************)
(* get_results of XonXoffSolver, thresholds = "manual"                     *)
(***************************************************************************)
GetResultsXonXoffManual ==
    /\ pc = "get_results"
    /\ params.fifo_type = "xon_xoff"
    /\ params.thresholds = "manual"
    /\ LET optimal == TwoPhaseSolve(
                          XonXoffCpModel(params, write_valid, read_valid, NONE, NONE))
       IN  IF optimal = {}
           THEN /\ Raise("RuntimeError")
                /\ UNCHANGED <<results, sol, results_check_args>>
           ELSE /\ \E s \in optimal :
                    /\ results' = XonXoffAdjustResults(
                            [MakeResults(s, s.peak) EXCEPT
                                !.xon = params.xon, !.xoff = params.xoff,
                                !.t_star = s.t_star],
                            params, base_sync_fifo_depth)
                    /\ sol' = [s EXCEPT !.path = "xon_xoff"]
                /\ results_check_args' =
                        [occ_max |-> params.sum_w_max,
                         throughput_target |->
                             IF params.throughput_target \in {AUTO, NONE}
                             THEN NONE ELSE params.throughput_target]
                /\ pc' = "check_results" /\ err' = err
    /\ UNCHANGED calls
    /\ UNCHANGED main_vars
    /\ UNCHANGED dv_vars
    /\ UNCHANGED cdc_vars
    /\ UNCHANGED <<spec, cdc_ctx, flat_spec, overall_period, write_valid,
                   read_valid, params, cred_bounds, saved>>

(***************************************************************************)
(* XON/XOFF solver, automatic thresholds                                   *)
(***************************************************************************)
\* math.inf in the ranking key
INF == 1000000

\* max_window_sum: the largest sum over a window of l mask slots
max_window_sum(mask, l) ==
    IF l <= 0 THEN 0
    ELSE LET n == Len(mask)
             len == Min2(l, n)
         IN  SetMax({SumSeq(SubSeq(mask, i + 1, i + len)) : i \in 0..(n - len)})

\* The band a hysteresis bound gives for xon_val: ceil(ratio * xon_val) for
\* a float, the value itself for an int
HysBand(h, xon_val) ==
    IF h.ratio THEN CeilDiv(h.num * xon_val, h.den) ELSE h.num

_hys_max_for_xon(p, xon_val) == HysBand(p.hysteresis[2], xon_val)
_hys_min_for_xon(p, xon_val) == HysBand(p.hysteresis[1], xon_val)

\* (xon_min_eff, xoff_lo_eff, xoff_hi_eff); ok is FALSE where the code
\* raises RuntimeError for an empty range
_get_effective_thresholds(p, wv, rv) ==
    LET delta_mask == max_wait_to_next_valid_slot(wv)
        l_total == p.rd_latency + p.wr_latency + p.resume_latency + delta_mask
        xon_min_auto == p.r_max * max_window_sum(rv, l_total)
        xon_min_user == IF p.xon_min \in {NONE, AUTO} THEN 0 ELSE p.xon_min
        xon_min_eff == Max2(xon_min_auto, xon_min_user)
        mh_min == _hys_min_for_xon(p, xon_min_eff)
        hmax_cap == _hys_max_for_xon(p, Max2(1, xon_min_eff))
        xoff_lo_eff == IF p.xoff_range.auto THEN xon_min_eff + mh_min
                       ELSE Max2(p.xoff_range.lo, xon_min_eff + mh_min)
        xoff_hi_eff == IF p.xoff_range.auto
                       THEN Min2(p.sum_w_max, xoff_lo_eff + hmax_cap)
                       ELSE Min2(Min2(p.xoff_range.hi, xoff_lo_eff + hmax_cap),
                                 p.sum_w_max)
    IN  [ok |-> xoff_lo_eff <= xoff_hi_eff, xon_min_eff |-> xon_min_eff,
         xoff_lo_eff |-> xoff_lo_eff, xoff_hi_eff |-> xoff_hi_eff]

\* The throughput bound w_den * duty as a fraction <<num, den>>
_get_throughput_upper_bound(p, wv, rv, band) ==
    LET wc == SumSeq(SubSeq(wv, 1, Min2(p.horizon, Len(wv))))
        rc == SumSeq(SubSeq(rv, 1, Min2(p.horizon, Len(rv))))
        net == Max2(wc - rc, 0)
        active == rc * (band * p.horizon + p.react_latency * net)
        pause == band * p.horizon * net
    IN  IF net = 0 \/ rc = 0 THEN <<wc, p.horizon>>
        ELSE <<wc * active, p.horizon * (active + pause)>>

\* self._throughput_abs_req of a trial, throughput_target "auto" or None:
\* floor(ub_rate * horizon + EPS) less the safety write, capped by ub_w - 1
ThroughputAbsReq(p, wv, rv, band) ==
    LET write_slots == SumSeq(SubSeq(wv, 1, Min2(p.horizon, Len(wv))))
        ub_w == Min2(p.sum_w_max, p.w_max * write_slots)
        ub_rate == _get_throughput_upper_bound(p, wv, rv, band)
        raw_target_w == (ub_rate[1] * p.horizon) \div ub_rate[2]
        target_w == Max2(0, raw_target_w - 1)
    IN  Min2(IF ub_w > 0 THEN ub_w - 1 ELSE 0, target_w)

RECURSIVE XonTrials(_, _, _, _)
\* The pairs tried for one xoff: xon from xon down to lo, those with a band
\* outside [min_band_trial, max_band_trial] skipped
XonTrials(p, xoff, xon, lo) ==
    IF xon < lo THEN <<>>
    ELSE LET band == xoff - xon
         IN  (IF band < _hys_min_for_xon(p, xon) \/ band > _hys_max_for_xon(p, xon)
              THEN <<>> ELSE <<[xon |-> xon, xoff |-> xoff]>>)
             \o XonTrials(p, xoff, xon - 1, lo)

RECURSIVE SweepTrials(_, _, _, _)
\* The pairs tried by the sweep, in order: xoff from xoff up to xoff_hi_eff
SweepTrials(p, xon_min_eff, xoff, xoff_hi_eff) ==
    IF xoff > xoff_hi_eff THEN <<>>
    ELSE LET hmin == p.hysteresis[1]
             hmax == p.hysteresis[2]
             xon_hi_bound ==
                 IF hmin.ratio
                 THEN Min2(xoff - 1, (xoff * hmin.den) \div (hmin.den + hmin.num))
                 ELSE Min2(xoff - 1,
                           xoff - _hys_min_for_xon(p, Max2(1, xon_min_eff)))
             xon_lo_bound ==
                 Max2(IF hmax.ratio
                      THEN CeilDiv((xoff - 1) * hmax.den, hmax.den + hmax.num)
                      ELSE xoff - _hys_max_for_xon(p, Max2(1, xon_min_eff)),
                      xon_min_eff)
         IN  (IF xoff > p.sum_w_max \/ xon_min_eff >= xoff
                 \/ xon_lo_bound > xon_hi_bound
              THEN <<>> ELSE XonTrials(p, xoff, xon_hi_bound, xon_lo_bound))
             \o SweepTrials(p, xon_min_eff, xoff + 1, xoff_hi_eff)

\* key <= best_key: the last trial wins a tie
KeyLessOrEqual(a, b) ==
    \A i \in 1..5 : a[i] > b[i] => \E j \in 1..(i - 1) : a[j] < b[j]

\* key < best_key on the tuples (depth, band, xoff, occ_peak, t_star)
KeyLess(a, b) ==
    \E i \in 1..5 : a[i] < b[i] /\ \A j \in 1..(i - 1) : a[j] = b[j]

\* One trial: _get_results_one on a copy of the parameters with the pair
\* set, under the write lower bound of the trial and the given peak_ub
TrialOf(p, wv, rv, base_sync, pair, peak_ub) ==
    LET trial == [p EXCEPT !.xon = pair.xon, !.xoff = pair.xoff]
        band == pair.xoff - pair.xon
        Keyed(abs_req, r) ==
            [solved |-> TRUE, xon |-> pair.xon, xoff |-> pair.xoff,
             abs_req |-> abs_req, peak_ub |-> peak_ub,
             key |-> <<r.depth,
                       IF p.prefer_small_band THEN band ELSE INF,
                       IF p.prefer_low_xoff THEN pair.xoff ELSE INF,
                       r.occ_peak, r.t_star>>]
        Adjusted(s) ==
            XonXoffAdjustResults(
                [MakeResults(s, s.peak) EXCEPT
                    !.xon = pair.xon, !.xoff = pair.xoff,
                    !.t_star = s.t_star],
                trial, base_sync)
        Solved(abs_req, optimal) ==
            IF optimal = {}
            THEN [solved |-> FALSE, xon |-> pair.xon, xoff |-> pair.xoff,
                  abs_req |-> abs_req, peak_ub |-> peak_ub,
                  key |-> <<INF, INF, INF, INF, INF>>]
            ELSE Keyed(abs_req, Adjusted(CHOOSE x \in optimal : TRUE))
        WithReq(abs_req) ==
            Solved(abs_req,
                   TwoPhaseSolve(XonXoffCpModel(trial, wv, rv, abs_req, peak_ub)))
    IN  WithReq(ThroughputAbsReq(p, wv, rv, band))

\* The sweep state before the first trial
NoBest == [best_key |-> <<>>, best_xon |-> 0, best_xoff |-> 0,
           best_abs_req |-> 0, best_peak |-> NONE, peak_ub |-> NONE,
           log |-> <<>>]

\* A sweep that ends at the first trial
SweepFirstOnly(p, wv, rv, base_sync, trials, st) ==
    IF trials = <<>> THEN st
    ELSE LET Logged(tr, nxt) ==
                 [nxt EXCEPT !.log =
                     <<tr @@ [best_xon |-> nxt.best_xon,
                              best_xoff |-> nxt.best_xoff,
                              best_key |-> nxt.best_key]>>]
             Step(tr) ==
                 Logged(tr,
                        IF tr.solved
                        THEN [best_key |-> tr.key, best_xon |-> tr.xon,
                              best_xoff |-> tr.xoff, best_abs_req |-> tr.abs_req,
                              best_peak |-> tr.key[4], peak_ub |-> NONE,
                              log |-> <<>>]
                        ELSE st)
         IN  Step(TrialOf(p, wv, rv, base_sync, Head(trials), NONE))

RECURSIVE Sweep(_, _, _, _, _, _)
\* The loop over the remaining trials: a trial that raises
\* RuntimeError is skipped, a trial whose key is less than best_key becomes
\* the best, and every trial is bounded by the peak of the best so far
Sweep(p, wv, rv, base_sync, trials, st) ==
    IF trials = <<>> THEN st
    ELSE LET peak_ub == IF st.best_peak # NONE THEN st.best_peak ELSE st.peak_ub
             Logged(tr, nxt) ==
                 [nxt EXCEPT !.log =
                     Append(st.log,
                            tr @@ [best_xon |-> nxt.best_xon,
                                   best_xoff |-> nxt.best_xoff,
                                   best_key |-> nxt.best_key])]
             Step(tr) ==
                 Logged(tr,
                        IF tr.solved /\ (st.best_key = <<>>
                                         \/ KeyLess(tr.key, st.best_key))
                        THEN [best_key |-> tr.key, best_xon |-> tr.xon,
                              best_xoff |-> tr.xoff, best_abs_req |-> tr.abs_req,
                              best_peak |-> tr.key[4], peak_ub |-> peak_ub,
                              log |-> st.log]
                        ELSE [st EXCEPT !.peak_ub = peak_ub])
         IN  Sweep(p, wv, rv, base_sync, Tail(trials),
                   Step(TrialOf(p, wv, rv, base_sync, Head(trials), peak_ub)))

(***************************************************************************)
(* get_results of XonXoffSolver, thresholds = "auto"                       *)
(***************************************************************************)
\* XonXoffResults of one optimal assignment solved for params p
XonXoffResultsOf(s, p, base_sync) ==
    XonXoffAdjustResults(
        [MakeResults(s, s.peak) EXCEPT !.xon = p.xon, !.xoff = p.xoff,
                                       !.t_star = s.t_star],
        p, base_sync)

GetResultsXonXoffAuto ==
    /\ pc = "get_results"
    /\ params.fifo_type = "xon_xoff"
    /\ params.thresholds = "auto"
    /\ params.throughput_target \in {AUTO, NONE}
    /\ \E eff \in {_get_effective_thresholds(params, write_valid, read_valid)} :
       IF ~eff.ok
       THEN /\ Raise("RuntimeError")
            /\ UNCHANGED <<params, results, sol, results_check_args>>
       ELSE
       \E trials \in {SweepTrials(params, eff.xon_min_eff, eff.xoff_lo_eff,
                                  eff.xoff_hi_eff)} :
       \E st \in {Sweep(params, write_valid, read_valid, base_sync_fifo_depth,
                        trials, NoBest)} :
       \E best \in {[params EXCEPT !.xon = st.best_xon, !.xoff = st.best_xoff]} :
       \E swept \in {[sol EXCEPT !.trials = st.log, !.peak_ub = st.peak_ub]} :
           IF st.best_key = <<>>
           THEN /\ Raise("RuntimeError")
                /\ params' = IF trials = <<>> THEN params
                             ELSE [params EXCEPT
                                      !.xon = st.log[Len(st.log)].xon,
                                      !.xoff = st.log[Len(st.log)].xoff]
                /\ sol' = IF trials = <<>> THEN swept
                          ELSE [swept EXCEPT !.throughput_abs_req =
                                                st.log[Len(st.log)].abs_req]
                /\ UNCHANGED <<results, results_check_args>>
           ELSE
           \E optimal \in {TwoPhaseSolve(
                               XonXoffCpModel(best, write_valid, read_valid,
                                              st.best_abs_req, st.peak_ub))} :
           IF optimal = {}
           THEN /\ Raise("RuntimeError")
                /\ params' = best
                /\ sol' = [swept EXCEPT !.throughput_abs_req = st.best_abs_req]
                /\ \E tr \in {st.log[SetMax({i \in 1..Len(st.log) :
                                                st.log[i].solved})]} :
                   \E p \in {[params EXCEPT !.xon = tr.xon, !.xoff = tr.xoff]} :
                   \E s \in TwoPhaseSolve(
                                XonXoffCpModel(p, write_valid, read_valid,
                                               tr.abs_req, tr.peak_ub)) :
                      results' = XonXoffResultsOf(s, p, base_sync_fifo_depth)
                /\ results_check_args' =
                        [occ_max |-> params.sum_w_max, throughput_target |-> NONE]
           ELSE /\ \E s \in optimal :
                    /\ results' = XonXoffResultsOf(s, best, base_sync_fifo_depth)
                    /\ sol' = [s EXCEPT !.path = "xon_xoff", !.trials = st.log,
                                        !.peak_ub = st.peak_ub,
                                        !.throughput_abs_req = st.best_abs_req]
                /\ params' = best
                /\ results_check_args' =
                        [occ_max |-> params.sum_w_max, throughput_target |-> NONE]
                /\ pc' = "check_results" /\ err' = err
    /\ UNCHANGED calls
    /\ UNCHANGED main_vars
    /\ UNCHANGED dv_vars
    /\ UNCHANGED cdc_vars
    /\ UNCHANGED <<spec, cdc_ctx, flat_spec, overall_period, write_valid,
                   read_valid, cred_bounds, saved>>

(***************************************************************************)
(* get_results of ReplaySolver                                             *)
(***************************************************************************)
GetResultsReplay ==
    /\ pc = "get_results"
    /\ params.fifo_type = "replay"
    /\ LET rtt_eff == ReplayRttEff(params, rd_sync_cycles_in_wr)
           optimal == TwoPhaseSolve(ReplayCpModel(params, rtt_eff))
       IN  IF params.horizon < rtt_eff
           THEN /\ Raise("AssertionError")
                /\ UNCHANGED <<results, sol, results_check_args>>
           ELSE IF optimal = {}
           THEN /\ Raise("RuntimeError")
                /\ UNCHANGED <<results, sol, results_check_args>>
           ELSE /\ \E s \in optimal :
                    /\ results' = MakeResults(s,
                            ReplayAdjustDepth(s.peak, params, base_sync_fifo_depth))
                    /\ sol' = [s EXCEPT !.path = "replay"]
                /\ results_check_args' =
                        [NoCheckArgs EXCEPT
                            !.occ_max = peak_analytic(params, rtt_eff)]
                /\ pc' = "check_results" /\ err' = err
    /\ UNCHANGED calls
    /\ UNCHANGED main_vars
    /\ UNCHANGED dv_vars
    /\ UNCHANGED cdc_vars
    /\ UNCHANGED <<spec, cdc_ctx, flat_spec, overall_period, write_valid,
                   read_valid, params, cred_bounds, saved>>

(***************************************************************************)
(* check_results, save_results, handle_results                             *)
(***************************************************************************)
\* check_results and log_results
CheckResults ==
    /\ pc = "check_results"
    /\ results' = ResultsCheck(results, results_check_args, params.fifo_type)
    /\ pc' = "save_results"
    /\ UNCHANGED calls
    /\ UNCHANGED main_vars
    /\ UNCHANGED dv_vars
    /\ UNCHANGED cdc_vars
    /\ UNCHANGED <<spec, cdc_ctx, flat_spec, overall_period, write_valid,
                   read_valid, params, results_check_args, cred_bounds, sol,
                   saved, err>>

SaveResults ==
    /\ pc = "save_results"
    /\ saved' = TRUE
    /\ pc' = "handle_results"
    /\ UNCHANGED calls
    /\ UNCHANGED main_vars
    /\ UNCHANGED dv_vars
    /\ UNCHANGED cdc_vars
    /\ UNCHANGED <<spec, cdc_ctx, flat_spec, overall_period, write_valid,
                   read_valid, params, results, results_check_args,
                   cred_bounds, sol, err>>

HandleResults ==
    /\ pc = "handle_results"
    /\ IF ~results.basic_checks_pass THEN Raise("ValueError")
       ELSE pc' = "done" /\ err' = err
    /\ UNCHANGED calls
    /\ UNCHANGED main_vars
    /\ UNCHANGED dv_vars
    /\ UNCHANGED cdc_vars
    /\ UNCHANGED <<spec, cdc_ctx, flat_spec, overall_period, write_valid,
                   read_valid, params, results, results_check_args,
                   cred_bounds, sol, saved>>

(***************************************************************************)
(* Specification                                                           *)
(***************************************************************************)
\* A ReadyValidSolver whose get_results is called on validated parameters
\* and masks (the asserts of get_results): the state the steps before it
\* leave, with rd_latency as configured
InitSolve ==
    \E in \in SolveInputs :
      LET s == in[1]
          f == in[2]
      IN
        /\ pc = "get_results"
        /\ spec = s
        /\ cdc_ctx = _get_cdc_ctx(f)
        /\ flat_spec = FlatSpecOf(s)
        /\ overall_period = IF s.layered
                            THEN compile_layered_spec(s).overall_period
                            ELSE s.horizon
        /\ write_valid = IF s.layered THEN compile_layered_spec(s).write_valid
                         ELSE Rep(1, s.horizon)
        /\ read_valid = IF s.layered THEN compile_layered_spec(s).read_valid
                        ELSE Rep(1, s.horizon)
        /\ params = FlatSpecOf(s)
        /\ results = NoResults
        /\ results_check_args = NoCheckArgs
        /\ cred_bounds = NoCredBounds
        /\ sol = NoSol
        /\ saved = FALSE
        /\ err = ""
        /\ full_spec = DefaultSpec
        /\ wr_window_cycles = 0
        /\ wr_items_per_cycle = 0
        /\ calls = IF s.layered THEN ProfileCalls(s) ELSE <<>>
        /\ main_pc = "none"
        /\ spec_files = <<>>
        /\ outdir = NoCdcFile
        /\ NoDv

Init == InitRun \/ InitSolve

Next ==
    \/ GetSpec
    \/ GetFlatSpec
    \/ GetModel
    \/ GetParams
    \/ CheckParams
    \/ GetValids
    \/ CheckValids
    \/ GetResultsRvAnalysis
    \/ GetResultsRvCpSat
    \/ GetResultsCbfc
    \/ GetResultsXonXoffManual
    \/ GetResultsXonXoffAuto
    \/ GetResultsReplay
    \/ CheckResults
    \/ SaveResults
    \/ HandleResults

Spec == Init /\ [][Next]_vars

(***************************************************************************)
(* CdcSolver.run: the CDC stage of a specification file                    *)
(***************************************************************************)
SlowClk == 1000
FastClk == 2000
GigaClk == 1000000000
OddClk == 3
PpmLong == 20000

Freqs == {OddClk, SlowClk, FastClk, GigaClk}

\* Clock pairs whose depths stay below 2^31
MaxClockRatio == 1000
FreqPairs == {f \in Freqs \X Freqs : f[1] \div MaxClockRatio <= f[2]}

\* Files whose traffic part is flat with a horizon, or layered with an
\* automatic horizon; w_max is the items per cycle
CdcTraffic ==
    {[DefaultSpec EXCEPT !.horizon = h, !.w_max = wm] :
        h \in {0, SweepHorizon}, wm \in 1..MaxCap}
    \cup {[DefaultSpec EXCEPT !.layered = TRUE, !.horizon = AUTO, !.w_max = wm] :
            wm \in 0..MaxCap}

\* cdc sections: clocks, drift and synchronizer depths over a long window
CdcClockSections ==
    {[DefaultCdc EXCEPT !.wr_clk_freq = f[1], !.rd_clk_freq = f[2],
                        !.wr_clk_ppm = ppm[1], !.rd_clk_ppm = ppm[2],
                        !.wptr_sync_stages = st, !.rptr_sync_stages = st,
                        !.window_cycles = PpmLong] :
        f \in FreqPairs, ppm \in {<<0, 0>>, <<100, 50>>},
        st \in {2, 3}}

\* cdc sections: margin, rounding, hosting domain and window
CdcDepthSections ==
    {[DefaultCdc EXCEPT !.wr_clk_freq = f[1], !.rd_clk_freq = f[2],
                        !.margin_type = m[1], !.margin_val = m[2],
                        !.rounding = m[3], !.big_fifo_domain = dom,
                        !.window_cycles = win] :
        f \in {<<SlowClk, SlowClk>>, <<FastClk, SlowClk>>, <<SlowClk, FastClk>>},
        m \in {<<"absolute", 0, "none">>, <<"percentage", 50, "none">>,
               <<"absolute", 1, "power2">>, <<"percentage", 50, "power2">>},
        dom \in {"write", "read"}, win \in {AUTO, 0, SweepHorizon}}

\* A file without a cdc section, and one whose write clock is 0 Hz
NoCdcSection == [DefaultCdc EXCEPT !.wr_clk_freq = NONE]
StoppedClock == [DefaultCdc EXCEPT !.wr_clk_freq = 0]

CdcInputs ==
    ({t \in CdcTraffic : ~t.layered /\ t.horizon > 0} \X CdcClockSections)
    \cup (CdcTraffic \X CdcDepthSections)
    \cup ({DefaultSpec} \X {NoCdcSection, StoppedClock})

\* get_spec: the whole file is kept, self.spec is its cdc section
CdcGetSpecFrom(Inputs) ==
    /\ pc = "get_spec"
    /\ \E in \in Inputs :
        /\ full_spec' = in[1]
        /\ IF in[2] = NoCdcSection
           THEN spec' = spec /\ Raise("ValueError")
           ELSE spec' = in[2] /\ pc' = "get_flat_spec" /\ err' = err
    /\ UNCHANGED calls
    /\ UNCHANGED main_vars
    /\ UNCHANGED dv_vars
    /\ UNCHANGED <<cdc_ctx, flat_spec, overall_period, write_valid, read_valid,
                   params, results, results_check_args, cred_bounds, sol,
                   saved, wr_window_cycles, wr_items_per_cycle>>

CdcGetSpec == CdcGetSpecFrom(CdcInputs)

\* get_unique_keys and get_flat_spec: a cdc section is never layered and has
\* no horizon key
CdcGetFlatSpec ==
    /\ pc = "get_flat_spec"
    /\ flat_spec' = spec
    /\ overall_period' = 0
    /\ pc' = "get_model"
    /\ UNCHANGED calls
    /\ UNCHANGED main_vars
    /\ UNCHANGED dv_vars
    /\ UNCHANGED cdc_vars
    /\ UNCHANGED <<spec, cdc_ctx, write_valid, read_valid, params, results,
                   results_check_args, cred_bounds, sol, saved, err>>

\* get_model, log_model and check_model
CdcGetModel ==
    /\ pc = "get_model"
    /\ IF CdcModelValid(flat_spec) THEN pc' = "get_params" /\ err' = err
       ELSE Raise("ValidationError")
    /\ UNCHANGED calls
    /\ UNCHANGED main_vars
    /\ UNCHANGED dv_vars
    /\ UNCHANGED cdc_vars
    /\ UNCHANGED <<spec, cdc_ctx, flat_spec, overall_period, write_valid,
                   read_valid, params, results, results_check_args,
                   cred_bounds, sol, saved>>

\* get_params: CdcParams.from_model
CdcGetParams ==
    /\ pc = "get_params"
    /\ params' = flat_spec
    /\ pc' = "check_params"
    /\ UNCHANGED calls
    /\ UNCHANGED main_vars
    /\ UNCHANGED dv_vars
    /\ UNCHANGED cdc_vars
    /\ UNCHANGED <<spec, cdc_ctx, flat_spec, overall_period, write_valid,
                   read_valid, results, results_check_args, cred_bounds, sol,
                   saved, err>>

\* log_params and check_params
CdcCheckParams ==
    /\ pc = "check_params"
    /\ IF CdcParamsCheck(params) = "" THEN pc' = "get_window" /\ err' = err
       ELSE Raise(CdcParamsCheck(params))
    /\ UNCHANGED calls
    /\ UNCHANGED main_vars
    /\ UNCHANGED dv_vars
    /\ UNCHANGED cdc_vars
    /\ UNCHANGED <<spec, cdc_ctx, flat_spec, overall_period, write_valid,
                   read_valid, params, results, results_check_args,
                   cred_bounds, sol, saved>>

\* The two assignments of run between check_params and get_results
CdcGetWindow ==
    /\ pc = "get_window"
    /\ IF WindowCyclesOf(flat_spec, full_spec) <= 0
       THEN /\ Raise("ValueError")
            /\ UNCHANGED <<wr_window_cycles, wr_items_per_cycle>>
       ELSE /\ wr_window_cycles' = _get_wr_window_cycles(flat_spec, full_spec)
            /\ IF full_spec.layered /\ full_spec.w_max < 1
               THEN Raise("ValueError") /\ UNCHANGED wr_items_per_cycle
               ELSE /\ wr_items_per_cycle' = _get_wr_items_per_cycle(full_spec)
                    /\ pc' = "get_results" /\ err' = err
    /\ UNCHANGED calls
    /\ UNCHANGED main_vars
    /\ UNCHANGED dv_vars
    /\ UNCHANGED <<spec, cdc_ctx, flat_spec, overall_period, write_valid,
                   read_valid, params, results, results_check_args,
                   cred_bounds, sol, saved, full_spec>>

CdcGetResults ==
    /\ pc = "get_results"
    /\ results' = CdcResultsOf(params, wr_window_cycles, wr_items_per_cycle)
    /\ pc' = "check_results"
    /\ UNCHANGED calls
    /\ UNCHANGED main_vars
    /\ UNCHANGED dv_vars
    /\ UNCHANGED cdc_vars
    /\ UNCHANGED <<spec, cdc_ctx, flat_spec, overall_period, write_valid,
                   read_valid, params, results_check_args, cred_bounds, sol,
                   saved, err>>

\* check_results and log_results: CdcResults has no check method
CdcCheckResults ==
    /\ pc = "check_results"
    /\ pc' = "save_results"
    /\ UNCHANGED calls
    /\ UNCHANGED main_vars
    /\ UNCHANGED dv_vars
    /\ UNCHANGED cdc_vars
    /\ UNCHANGED <<spec, cdc_ctx, flat_spec, overall_period, write_valid,
                   read_valid, params, results, results_check_args,
                   cred_bounds, sol, saved, err>>

\* A save that leaves the output directory as it is
CdcSaveNothing ==
    /\ pc = "save_results"
    /\ saved' = TRUE
    /\ pc' = "handle_results"
    /\ UNCHANGED calls
    /\ UNCHANGED main_vars
    /\ UNCHANGED dv_vars
    /\ UNCHANGED cdc_vars
    /\ UNCHANGED <<spec, cdc_ctx, flat_spec, overall_period, write_valid,
                   read_valid, params, results, results_check_args,
                   cred_bounds, sol, err>>

\* save_results writes cdc_results_scalars.json
CdcSaveResults ==
    /\ pc = "save_results"
    /\ saved' = TRUE
    /\ outdir' = CdcScalarsFile(results)
    /\ pc' = "handle_results"
    /\ UNCHANGED calls
    /\ UNCHANGED <<main_pc, spec_files>>
    /\ UNCHANGED dv_vars
    /\ UNCHANGED cdc_vars
    /\ UNCHANGED <<spec, cdc_ctx, flat_spec, overall_period, write_valid,
                   read_valid, params, results, results_check_args,
                   cred_bounds, sol, err>>

CdcHandleResults ==
    /\ pc = "handle_results"
    /\ IF ~results.basic_checks_pass THEN Raise("ValueError")
       ELSE pc' = "done" /\ err' = err
    /\ UNCHANGED calls
    /\ UNCHANGED main_vars
    /\ UNCHANGED dv_vars
    /\ UNCHANGED cdc_vars
    /\ UNCHANGED <<spec, cdc_ctx, flat_spec, overall_period, write_valid,
                   read_valid, params, results, results_check_args,
                   cred_bounds, sol, saved>>

NextCdc ==
    \/ CdcGetSpec
    \/ CdcGetFlatSpec
    \/ CdcGetModel
    \/ CdcGetParams
    \/ CdcCheckParams
    \/ CdcGetWindow
    \/ CdcGetResults
    \/ CdcCheckResults
    \/ CdcSaveResults
    \/ CdcHandleResults

\* The solver object after CdcSolver.__init__ and get_cli is InitRun with the
\* three attributes of cdc_vars
SpecCdc == InitRun /\ [][NextCdc]_vars

(***************************************************************************)
(* round_value and apply_margin as functions of their arguments            *)
(***************************************************************************)
MaxValue == 33
MaxCalls == 2
WideBits == 53

\* Python ints beyond the range of exactly representable floats, as bits:
\* 2^WideBits, 2^WideBits + 1 and 2^WideBits + 2
WideValues ==
    {Rep(0, WideBits) \o <<1>>,
     <<1>> \o Rep(0, WideBits - 1) \o <<1>>,
     <<0, 1>> \o Rep(0, WideBits - 2) \o <<1>>}

MarginValues == {0, 3, 50}

\* The argument of the next call: a fresh value, or the value the previous
\* call returned
NextArgs(Fresh) ==
    IF calls = <<>> \/ calls[Len(calls)].fn = "FifoResults.check"
    THEN Fresh
    ELSE {calls[Len(calls)].ret}

CallRoundValue ==
    /\ Len(calls) < MaxCalls
    /\ \E value \in NextArgs({BitsOfNat(n) : n \in 0..MaxValue}),
          rounding \in {"none", "power2"} :
         /\ Len(value) <= 30
         /\ calls' = Append(calls,
                [fn |-> "round_value", val |-> value, mode |-> rounding,
                 margin_val |-> 0,
                 ret |-> BitsOfNat(round_value(NatOfBits(value), rounding))])
    /\ UNCHANGED main_vars
    /\ UNCHANGED dv_vars
    /\ UNCHANGED cdc_vars
    /\ UNCHANGED <<pc, spec, cdc_ctx, flat_spec, overall_period, write_valid,
                   read_valid, params, results, results_check_args,
                   cred_bounds, sol, saved, err>>

CallApplyMargin ==
    /\ Len(calls) < MaxCalls
    /\ \E val \in NextArgs({BitsOfNat(n) : n \in 0..MaxValue} \cup WideValues),
          margin_type \in {"percentage", "absolute"},
          margin_val \in MarginValues :
         calls' = Append(calls,
                [fn |-> "apply_margin", val |-> val, mode |-> margin_type,
                 margin_val |-> margin_val,
                 ret |-> apply_margin_wide(val, margin_type, margin_val)])
    /\ UNCHANGED main_vars
    /\ UNCHANGED dv_vars
    /\ UNCHANGED cdc_vars
    /\ UNCHANGED <<pc, spec, cdc_ctx, flat_spec, overall_period, write_valid,
                   read_valid, params, results, results_check_args,
                   cred_bounds, sol, saved, err>>

\* FifoResults.check applied to a results object as its constructor leaves
\* it (basic_checks_pass False, msg ""), for every small occupancy sequence,
\* reported peak and occupancy limit
MaxOcc == 2

\* occ_seq[0] and the occupancy after each of two cycles
OccSeqs == [1..3 -> 0..MaxOcc]

CallResultsCheck ==
    /\ Len(calls) < MaxCalls
    /\ \E occ_seq \in OccSeqs, occ_peak \in 0..MaxOcc, occ_max \in 1..MaxOcc :
         LET res == [NoResults EXCEPT !.set = TRUE, !.depth = occ_peak,
                                      !.occ_peak = occ_peak,
                                      !.occ_seq = occ_seq]
         IN  calls' = Append(calls,
                [fn |-> "FifoResults.check", val |-> occ_seq, mode |-> "",
                 margin_val |-> occ_max,
                 ret |-> FifoResultsCheck(res, occ_max)])
    /\ UNCHANGED main_vars
    /\ UNCHANGED dv_vars
    /\ UNCHANGED cdc_vars
    /\ UNCHANGED <<pc, spec, cdc_ctx, flat_spec, overall_period, write_valid,
                   read_valid, params, results, results_check_args,
                   cred_bounds, sol, saved, err>>

NextUtil ==
    \/ CallRoundValue
    \/ CallApplyMargin
    \/ CallResultsCheck

SpecUtil == InitRun /\ [][NextUtil]_vars

(***************************************************************************)
(* compile_layered_spec on profiles with burst and stream structure        *)
(***************************************************************************)
MaxPhase == 2
MaxBurst == 3
MaxStreamGap == 1
MaxOverallPeriod == 16
BlindWindow == 9
ExplicitHorizon == 7

\* The example of _profile_from_spec's documentation: t_valid = 4, t_gap = 4,
\* transactions_per_burst = 2, no burst gap and no stream section
DocumentedProfile ==
    [t_valid |-> 4, t_gap |-> 4, b_cnt |-> 2, b_gap |-> 0, s_cnt |-> 1,
     s_gap |-> 0]

\* What _parse_layer_spec accepts: counts >= 1, gaps >= 0, a transaction of
\* at least one cycle
LayerSpecs ==
    {p \in [t_valid : 0..MaxPhase, t_gap : 0..MaxPhase, b_cnt : 1..MaxBurst,
            b_gap : 0..MaxStreamGap, s_cnt : 1..MaxBurst,
            s_gap : 0..MaxStreamGap] :
        /\ p.t_valid + p.t_gap > 0
        /\ _period_from_spec(p) <= MaxOverallPeriod}
    \cup {DocumentedProfile}

\* The read profile of a layered file: the write profile again, the default
\* of the model, or the documented one
LayerPairs ==
    {pp \in LayerSpecs \X LayerSpecs :
        /\ pp[2] \in {pp[1], DefaultSpec.read_profile, DocumentedProfile}
        /\ _lcm(_period_from_spec(pp[1]), _period_from_spec(pp[2]))
               <= MaxOverallPeriod}

LayeredCompileSpecs ==
    {[DefaultSpec EXCEPT !.layered = TRUE, !.horizon = h[1],
                         !.blind_window = h[2], !.kmin_blocks = h[3],
                         !.write_profile = pp[1], !.read_profile = pp[2],
                         !.wr_latency = wl] :
        h \in {<<AUTO, 0, 4>>, <<AUTO, BlindWindow, 1>>, <<1, 0, 4>>,
               <<ExplicitHorizon, 0, 4>>},
        pp \in LayerPairs, wl \in Latencies}

LayeredInputs == LayeredCompileSpecs \X {NoCdcFile}

GetLayeredSpec == GetSpecFrom(LayeredInputs)

NextLayered ==
    \/ GetLayeredSpec
    \/ GetFlatSpec

SpecLayered == InitRun /\ [][NextLayered]_vars

(***************************************************************************)
(* fifo_depth.main: the CDC stage and the synchronous stage of each file   *)
(***************************************************************************)
MaxFiles == 2

\* The synchronous part of the spec files: one per protocol and credit or
\* threshold mode, one the parameter check rejects
MainSyncSpecs ==
    LET Base == [DefaultSpec EXCEPT !.horizon = MaxHorizon, !.sum_w_max = 2,
                                    !.sum_r_max = 1]
    IN  {[Base EXCEPT !.fifo_type = "cbfc", !.cred_init = 2, !.cred_max = 3],
         [Base EXCEPT !.fifo_type = "cbfc"],
         [Base EXCEPT !.fifo_type = "xon_xoff", !.thresholds = "manual",
                      !.xon = 1, !.xoff = 2],
         [Base EXCEPT !.fifo_type = "xon_xoff"],
         [Base EXCEPT !.fifo_type = "replay", !.rtt = 1],
         [Base EXCEPT !.fifo_type = "replay", !.rtt = 0],
         Base}

\* A spec file: its traffic and protocol keys and its cdc section, which is
\* absent, valid, or has a stopped write clock
MainFiles == MainSyncSpecs \X {NoCdcSection, StageSection, StoppedClock}

RECURSIVE SeqsUpTo(_, _)
\* The non-empty sequences over S of length up to n
SeqsUpTo(S, n) ==
    IF n = 0 THEN {}
    ELSE {<<x>> : x \in S}
         \cup {<<x>> \o q : x \in S, q \in SeqsUpTo(S, n - 1)}

\* "cdc" in spec
HasCdc(file) == file[2] # NoCdcSection

\* A solver object is constructed and get_cli has run
ConstructSolver ==
    /\ pc' = NewSolver.pc
    /\ spec' = NewSolver.spec
    /\ cdc_ctx' = NewSolver.cdc_ctx
    /\ flat_spec' = NewSolver.flat_spec
    /\ overall_period' = NewSolver.overall_period
    /\ write_valid' = NewSolver.write_valid
    /\ read_valid' = NewSolver.read_valid
    /\ params' = NewSolver.params
    /\ results' = NewSolver.results
    /\ results_check_args' = NewSolver.results_check_args
    /\ cred_bounds' = NewSolver.cred_bounds
    /\ sol' = NewSolver.sol
    /\ saved' = NewSolver.saved
    /\ err' = NewSolver.err
    /\ full_spec' = NewSolver.full_spec
    /\ wr_window_cycles' = NewSolver.wr_window_cycles
    /\ wr_items_per_cycle' = NewSolver.wr_items_per_cycle
    /\ calls' = <<>>

solver_vars == <<pc, spec, cdc_ctx, flat_spec, overall_period, write_valid,
                 read_valid, params, results, results_check_args, cred_bounds,
                 sol, saved, err, full_spec, wr_window_cycles,
                 wr_items_per_cycle, calls>>

\* The head of the loop body: _get_outdir empties the output directory,
\* _get_spec loads the file, and _run_cdc is entered (it constructs the
\* CdcSolver when the file has a cdc section)
MainGetSpec ==
    /\ main_pc = "next_file"
    /\ outdir' = NoCdcFile
    /\ ConstructSolver
    /\ main_pc' = "run_cdc"
    /\ UNCHANGED spec_files
    /\ UNCHANGED dv_vars

\* cdc_solver.run inside _run_cdc is executing
InCdcStage == main_pc = "run_cdc" /\ HasCdc(Head(spec_files))

\* _run_cdc returns (at once without a cdc section, else after run and
\* _handle_results), and _run_sync constructs the solver of the fifo_type
MainRunSync ==
    /\ main_pc = "run_cdc"
    /\ IF HasCdc(Head(spec_files)) THEN pc = "done" ELSE pc = "get_spec"
    /\ IF HasCdc(Head(spec_files)) /\ ~results.basic_checks_pass
       THEN /\ main_pc' = "error"
            /\ UNCHANGED solver_vars
       ELSE /\ main_pc' = "run_sync"
            /\ ConstructSolver
    /\ UNCHANGED <<spec_files, outdir>>
    /\ UNCHANGED dv_vars

\* sync_solver.run inside _run_sync is executing
InSyncStage == main_pc = "run_sync"

\* _run_sync returns after _handle_results; the loop goes on to the next
\* file, and main returns 0 after the last
MainNextFile ==
    /\ main_pc = "run_sync"
    /\ pc = "done"
    /\ IF ~results.basic_checks_pass
       THEN main_pc' = "error" /\ UNCHANGED spec_files
       ELSE /\ spec_files' = Tail(spec_files)
            /\ main_pc' = IF Tail(spec_files) = <<>> THEN "returned"
                          ELSE "next_file"
    /\ UNCHANGED outdir
    /\ UNCHANGED solver_vars
    /\ UNCHANGED dv_vars

InitMain ==
    /\ pc = NewSolver.pc
    /\ spec = NewSolver.spec
    /\ cdc_ctx = NewSolver.cdc_ctx
    /\ flat_spec = NewSolver.flat_spec
    /\ overall_period = NewSolver.overall_period
    /\ write_valid = NewSolver.write_valid
    /\ read_valid = NewSolver.read_valid
    /\ params = NewSolver.params
    /\ results = NewSolver.results
    /\ results_check_args = NewSolver.results_check_args
    /\ cred_bounds = NewSolver.cred_bounds
    /\ sol = NewSolver.sol
    /\ saved = NewSolver.saved
    /\ err = NewSolver.err
    /\ full_spec = NewSolver.full_spec
    /\ wr_window_cycles = NewSolver.wr_window_cycles
    /\ wr_items_per_cycle = NewSolver.wr_items_per_cycle
    /\ calls = <<>>
    /\ main_pc = "next_file"
    /\ spec_files \in SeqsUpTo(MainFiles, MaxFiles)
    /\ outdir \in {NoCdcFile, CdcScalarsFile(CdcResultsOf(StageSection, 4, 1))}
    /\ NoDv

\* The steps of main and, inside the two stages, the steps of the solver's
\* run; a Ready/Valid run ends in get_params
NextMain ==
    \/ MainGetSpec
    \/ InCdcStage /\ CdcGetSpecFrom({Head(spec_files)})
    \/ InCdcStage /\ CdcGetFlatSpec
    \/ InCdcStage /\ CdcGetModel
    \/ InCdcStage /\ CdcGetParams
    \/ InCdcStage /\ CdcCheckParams
    \/ InCdcStage /\ CdcGetWindow
    \/ InCdcStage /\ CdcGetResults
    \/ InCdcStage /\ CdcCheckResults
    \/ InCdcStage /\ CdcSaveResults
    \/ InCdcStage /\ CdcHandleResults
    \/ MainRunSync
    \/ InSyncStage /\ GetSpecFrom({<<Head(spec_files)[1], outdir>>})
    \/ InSyncStage /\ GetFlatSpec
    \/ InSyncStage /\ GetModel
    \/ InSyncStage /\ GetParams
    \/ InSyncStage /\ CheckParams
    \/ InSyncStage /\ GetValids
    \/ InSyncStage /\ CheckValids
    \/ InSyncStage /\ GetResultsCbfc
    \/ InSyncStage /\ GetResultsXonXoffManual
    \/ InSyncStage /\ GetResultsXonXoffAuto
    \/ InSyncStage /\ GetResultsReplay
    \/ InSyncStage /\ CheckResults
    \/ InSyncStage /\ SaveResults
    \/ InSyncStage /\ HandleResults
    \/ MainNextFile

SpecMain == InitMain /\ [][NextMain]_vars

(***************************************************************************)
(* The reference model of rad_async_fifo under write, read and reset events *)
(***************************************************************************)
MaxCount == 3

\* RAD_ASYNC_FIFO_DSIZE and RAD_ASYNC_FIFO_ASIZE of the run
RefModelSettings == {<<0, 0>>, <<1, 2>>, <<2, 1>>}

\* The values of wdata a monitor can hand over: unresolvable, and values
\* below and above the width of the model
WdataValues == {NONE} \cup 0..5

\* A solver as its constructor leaves it, and no call recorded
NoSolver ==
    /\ pc = NewSolver.pc
    /\ spec = NewSolver.spec
    /\ cdc_ctx = NewSolver.cdc_ctx
    /\ flat_spec = NewSolver.flat_spec
    /\ overall_period = NewSolver.overall_period
    /\ write_valid = NewSolver.write_valid
    /\ read_valid = NewSolver.read_valid
    /\ params = NewSolver.params
    /\ results = NewSolver.results
    /\ results_check_args = NewSolver.results_check_args
    /\ cred_bounds = NewSolver.cred_bounds
    /\ sol = NewSolver.sol
    /\ saved = NewSolver.saved
    /\ err = NewSolver.err
    /\ full_spec = NewSolver.full_spec
    /\ wr_window_cycles = NewSolver.wr_window_cycles
    /\ wr_items_per_cycle = NewSolver.wr_items_per_cycle
    /\ calls = <<>>
    /\ main_pc = "none"
    /\ spec_files = <<>>
    /\ outdir = NoCdcFile

\* x & data_mask for data_mask = 2^dsize - 1
BitAndMask(x, data_mask) == x % (data_mask + 1)

\* _clear_state
_clear_state(m) ==
    [m EXCEPT !._fifo = <<>>, !._writes_accepted = 0, !._writes_dropped = 0,
              !._reads_accepted = 0, !._reads_blocked = 0]

\* wrst_change(value, active)
WrstChange ==
    /\ \E active \in BOOLEAN :
         /\ ref_model' =
              IF active
              THEN _clear_state([ref_model EXCEPT !._wrst_active = active])
              ELSE [ref_model EXCEPT !._wrst_active = active]
         /\ ref_call' = [NoRefCall EXCEPT !.fn = "wrst_change", !.active = active]
    /\ UNCHANGED drv_vars
    /\ UNCHANGED main_vars
    /\ UNCHANGED solver_vars

\* rrst_change(value, active)
RrstChange ==
    /\ \E active \in BOOLEAN :
         /\ ref_model' =
              IF active
              THEN _clear_state([ref_model EXCEPT !._rrst_active = active])
              ELSE [ref_model EXCEPT !._rrst_active = active]
         /\ ref_call' = [NoRefCall EXCEPT !.fn = "rrst_change", !.active = active]
    /\ UNCHANGED drv_vars
    /\ UNCHANGED main_vars
    /\ UNCHANGED solver_vars

\* reset_change(value, active): the legacy single reset
ResetChange ==
    /\ \E active \in BOOLEAN :
         /\ ref_model' =
              _clear_state([ref_model EXCEPT !._wrst_active = active,
                                             !._rrst_active = active])
         /\ ref_call' = [NoRefCall EXCEPT !.fn = "reset_change", !.active = active]
    /\ UNCHANGED drv_vars
    /\ UNCHANGED main_vars
    /\ UNCHANGED solver_vars

\* _calc_write_exp without the test of the queue length: the bounded deque
\* discards its oldest word when a word is appended to a full queue
WriteExpOverwrite(m, item) ==
    LET winc == IF item.winc # NONE THEN item.winc ELSE 0
        wdata == BitAndMask(IF item.wdata # NONE THEN item.wdata ELSE 0,
                            m.data_mask)
        kept == IF Len(m._fifo) < m.depth THEN m._fifo ELSE Tail(m._fifo)
    IN  IF m._wrst_active THEN m
        ELSE IF winc = 0 THEN m
        ELSE [m EXCEPT !._fifo = Append(kept, wdata),
                       !._writes_accepted = m._writes_accepted + 1]

\* The model after _calc_write_exp(item)
WriteExpModel(m, item) ==
    LET winc == IF item.winc # NONE THEN item.winc ELSE 0
        wdata == BitAndMask(IF item.wdata # NONE THEN item.wdata ELSE 0,
                            m.data_mask)
    IN  IF m._wrst_active THEN m
        ELSE IF winc = 0 THEN m
        ELSE IF Len(m._fifo) < m.depth
        THEN [m EXCEPT !._fifo = Append(m._fifo, wdata),
                       !._writes_accepted = m._writes_accepted + 1]
        ELSE [m EXCEPT !._writes_dropped = m._writes_dropped + 1]

\* The item _calc_write_exp(item) returns
WriteExpItem(m, item) == [item EXCEPT !.wfull = NONE]

\* The model after _calc_read_exp(item)
ReadExpModel(m, item) ==
    LET rinc == IF item.rinc # NONE THEN item.rinc ELSE 0
        has_data == Len(m._fifo) > 0
        read_en == rinc # 0 /\ has_data
    IN  IF m._rrst_active THEN m
        ELSE IF read_en
        THEN [m EXCEPT !._fifo = Tail(m._fifo),
                       !._reads_accepted = m._reads_accepted + 1]
        ELSE IF rinc # 0 /\ ~has_data
        THEN [m EXCEPT !._reads_blocked = m._reads_blocked + 1]
        ELSE m

\* The item _calc_read_exp(item) returns
ReadExpItem(m, item) ==
    LET rinc == IF item.rinc # NONE THEN item.rinc ELSE 0
        read_en == rinc # 0 /\ Len(m._fifo) > 0
    IN  IF m._rrst_active THEN [item EXCEPT !.rdata = NONE, !.rempty = NONE]
        ELSE IF read_en
        THEN [item EXCEPT !.rdata = Head(m._fifo), !.rempty = NONE]
        ELSE [item EXCEPT !.rdata = NONE, !.rempty = NONE]

\* The counters stay within MaxCount
CountersInBound(m) ==
    /\ m._writes_accepted <= MaxCount
    /\ m._writes_dropped <= MaxCount
    /\ m._reads_accepted <= MaxCount
    /\ m._reads_blocked <= MaxCount

\* calc_exp(tr) for a write item as the input monitor samples it
CalcExpWrite ==
    /\ \E winc \in {NONE, 0, 1}, wdata \in WdataValues :
         LET item == [RadAsyncFifoWriteItem EXCEPT !.winc = winc, !.wdata = wdata]
         IN  /\ CountersInBound(WriteExpModel(ref_model, item))
             /\ ref_model' = WriteExpModel(ref_model, item)
             /\ ref_call' = [fn |-> "calc_exp", active |-> FALSE,
                             ret |-> WriteExpItem(ref_model, item)]
    /\ UNCHANGED drv_vars
    /\ UNCHANGED main_vars
    /\ UNCHANGED solver_vars

\* calc_exp(tr) for a read item as the input monitor samples it
CalcExpRead ==
    /\ \E rinc \in {NONE, 0, 1} :
         LET item == [RadAsyncFifoReadItem EXCEPT !.rinc = rinc]
         IN  /\ CountersInBound(ReadExpModel(ref_model, item))
             /\ ref_model' = ReadExpModel(ref_model, item)
             /\ ref_call' = [fn |-> "calc_exp", active |-> FALSE,
                             ret |-> ReadExpItem(ref_model, item)]
    /\ UNCHANGED drv_vars
    /\ UNCHANGED main_vars
    /\ UNCHANGED solver_vars

InitRefModel ==
    /\ NoSolver
    /\ \E s \in RefModelSettings : ref_model = NewRefModel(s[1], s[2])
    /\ ref_call = NoRefCall
    /\ drv_pc = "none"
    /\ drv_tr = RadAsyncFifoWriteItem
    /\ dut = [winc |-> 0, wdata |-> 0]
    /\ wclk_edges = 0

NextRefModel ==
    \/ WrstChange
    \/ RrstChange
    \/ ResetChange
    \/ CalcExpWrite
    \/ CalcExpRead

SpecRefModel == InitRefModel /\ [][NextRefModel]_vars

(***************************************************************************)
(* The write driver of rad_async_fifo: run_phase after the reset wait       *)
(***************************************************************************)
MaxWdata == 7
WclkWrap == 3

\* The values of wfull the driver can sample at a drive edge after reset
WfullValues == {0, 1}

\* get_next_item: the sequencer hands over the next write item, as
\* RadAsyncFifoWriteSequence.set_item_inputs fills it (wdata is 0 without winc)
DrvGetNextItem ==
    /\ drv_pc = "get_next_item"
    /\ \E winc \in {0, 1}, wdata \in 0..MaxWdata :
         /\ winc = 0 => wdata = 0
         /\ drv_tr' = [RadAsyncFifoWriteItem EXCEPT !.winc = winc, !.wdata = wdata]
    /\ drv_pc' = "drive_item"
    /\ UNCHANGED <<dut, wclk_edges>>
    /\ UNCHANGED <<ref_model, ref_call>>
    /\ UNCHANGED main_vars
    /\ UNCHANGED solver_vars

\* A driver without backpressure: the item is driven whatever wfull is
DrivenBlind(item, wfull_now) == [winc |-> item.winc, wdata |-> item.wdata]

\* The inputs one pass of the loop of drive_item drives
DrivenInputs(item, wfull_now) ==
    IF item.winc # 0 /\ wfull_now # 0
    THEN [winc |-> 0, wdata |-> 0]
    ELSE [winc |-> item.winc, wdata |-> item.wdata]

\* One pass of the loop of drive_item leaves the loop
LeavesLoop(item, wfull_now) ==
    \/ item.winc = 0
    \/ item.winc # 0 /\ wfull_now = 0

\* One pass of the loop of drive_item: the drive edge, the sample of wfull,
\* the values driven, and the exit test (item_done follows the return)
DriveCycle ==
    /\ drv_pc = "drive_item"
    /\ wclk_edges' = (wclk_edges + 1) % WclkWrap
    /\ \E wfull_now \in WfullValues :
         /\ drv_tr' = [drv_tr EXCEPT !.wfull = wfull_now]
         /\ dut' = DrivenInputs(drv_tr, wfull_now)
         /\ drv_pc' = IF LeavesLoop(drv_tr, wfull_now)
                      THEN "get_next_item" ELSE "drive_item"
    /\ UNCHANGED <<ref_model, ref_call>>
    /\ UNCHANGED main_vars
    /\ UNCHANGED solver_vars

\* run_phase has applied initial_dut_input_values and has seen the reset
\* asserted and released
InitWriteDriver ==
    /\ NoSolver
    /\ ref_model = NewRefModel(8, 3)
    /\ ref_call = NoRefCall
    /\ drv_pc = "get_next_item"
    /\ drv_tr = RadAsyncFifoWriteItem
    /\ dut = [winc |-> 0, wdata |-> 0]
    /\ wclk_edges = 0

NextWriteDriver ==
    \/ DrvGetNextItem
    \/ DriveCycle

\* The write clock keeps running, so a driver waiting for the drive edge
\* gets it
SpecWriteDriver ==
    InitWriteDriver /\ [][NextWriteDriver]_vars /\ WF_vars(DriveCycle)

(***************************************************************************)
(* Properties of the witnesses and results                                 *)
(***************************************************************************)
\* The constraint-model paths among the values of sol.path
ConstraintPaths == {"rv_cp_sat", "cbfc", "xon_xoff"}

\* C1: in the witness every solver path returns (Ready/Valid analytic and
\* general, CBFC, XON/XOFF, Replay inflight) occ_seq has horizon + 1
\* entries, occ_seq[0] = 0 and occ_seq[t] >= 0 for every t in 0..horizon.
C1_OccStartsAtZeroAndNonNegative ==
    results.set =>
        /\ Len(results.occ_seq) = params.horizon + 1
        /\ At(results.occ_seq, 0) = 0
        /\ \A t \in 0..params.horizon : At(results.occ_seq, t) >= 0

\* C1 witness: the analytic path returned a witness in which reads drain
\* the FIFO back to empty after a positive peak
C1_Witness ==
    /\ results.set /\ sol.path = "rv_analysis"
    /\ results.occ_peak > 0
    /\ SumSeq(results.r_seq) > 0
    /\ At(results.occ_seq, params.horizon) = 0

\* (cred_init, cred_max) of the solve: the user's values, or the pair
\* _resolve_auto_credits returns when one of them is "auto"
EffectiveCredits ==
    IF params.cred_init = AUTO \/ params.cred_max = AUTO
    THEN _resolve_auto_credits(params, write_valid, read_valid)
    ELSE <<params.cred_init, params.cred_max>>

\* The occupancy bound each path passes to the check
PathOccMax ==
    CASE sol.path = "cbfc" ->
            Min2(params.sum_w_max, EffectiveCredits[1] + cred_bounds.max_deficit)
      [] sol.path = "replay" ->
            Min2(params.rtt + cdc_ctx.rd_sync_cycles_in_wr,
                 params.horizon - params.rtt - cdc_ctx.rd_sync_cycles_in_wr)
                * params.w_max
      [] OTHER -> params.sum_w_max

\* C2: for every result of every path occ_peak = max(occ_seq[1..horizon]),
\* occ_peak <= occ_max where occ_max is the bound the path passes to the
\* check, and the occupancy checks of FifoResults.check therefore pass.
C2_PeakIsMaxAndWithinOccMax ==
    results.set =>
        /\ \A t \in 1..params.horizon : At(results.occ_seq, t) <= results.occ_peak
        /\ \E t \in 1..params.horizon : At(results.occ_seq, t) = results.occ_peak
        /\ results_check_args.occ_max = PathOccMax
        /\ results.occ_peak <= results_check_args.occ_max
        /\ FifoResultsCheck(results, results_check_args.occ_max).basic_checks_pass
        /\ (saved /\ sol.path \in {"rv_analysis", "rv_cp_sat", "replay"})
               => results.basic_checks_pass

\* C2 witness: a CBFC result whose peak meets the credit-derived bound,
\* which is below sum_w_max, after check_results
C2_Witness ==
    /\ results.set /\ sol.path = "cbfc" /\ saved
    /\ results.occ_peak = results_check_args.occ_max
    /\ results_check_args.occ_max < params.sum_w_max
    /\ results.occ_peak > 0

\* C3: in every witness of a constraint-model path, for each t in
\* 0..horizon-1, occ[t+1] = occ[t] + (w[t - wr_latency] if t >= wr_latency
\* else 0) - (r[t - rd_latency] if t >= rd_latency else 0); so the final
\* occupancy counts only the writes and reads issued at least their latency
\* before the horizon.
C3_OccupancyRecurrence ==
    (results.set /\ sol.path \in ConstraintPaths) =>
        /\ \A t \in 0..(params.horizon - 1) :
              At(results.occ_seq, t + 1) =
                  At(results.occ_seq, t)
                  + (IF t >= params.wr_latency
                     THEN At(results.w_seq, t - params.wr_latency) ELSE 0)
                  - (IF t >= params.rd_latency
                     THEN At(results.r_seq, t - params.rd_latency) ELSE 0)
        /\ At(results.occ_seq, params.horizon) =
              SumSeq(SubSeq(results.w_seq, 1,
                            Max2(0, params.horizon - params.wr_latency)))
              - SumSeq(SubSeq(results.r_seq, 1,
                              Max2(0, params.horizon - params.rd_latency)))

\* C3 witness: a general Ready/Valid witness with a write latency in which
\* a write issued in the last cycle never reaches the FIFO
C3_Witness ==
    /\ results.set /\ sol.path = "rv_cp_sat"
    /\ params.wr_latency > 0
    /\ At(results.w_seq, params.horizon - 1) > 0
    /\ results.occ_peak > 0
    /\ At(results.occ_seq, params.horizon) < SumSeq(results.w_seq) - SumSeq(results.r_seq)


\* The masked solver paths among the values of sol.path
MaskedPaths == {"rv_analysis", "rv_cp_sat", "cbfc", "xon_xoff"}

\* C4: in every witness of a masked solver path 0 <= w[t] <= w_max *
\* write_valid[t] and 0 <= r[t] <= r_max * read_valid[t] for all t, and
\* sum_w_min <= sum(w) <= sum_w_max and sum_r_min <= sum(r) <= sum_r_max.
C4_CapsAndTotals ==
    (results.set /\ sol.path \in MaskedPaths) =>
        /\ \A t \in 0..(params.horizon - 1) :
              /\ 0 <= At(results.w_seq, t)
              /\ At(results.w_seq, t) <= params.w_max * At(write_valid, t)
              /\ 0 <= At(results.r_seq, t)
              /\ At(results.r_seq, t) <= params.r_max * At(read_valid, t)
        /\ params.sum_w_min <= SumSeq(results.w_seq)
        /\ SumSeq(results.w_seq) <= params.sum_w_max
        /\ params.sum_r_min <= SumSeq(results.r_seq)
        /\ SumSeq(results.r_seq) <= params.sum_r_max

\* Largest peak of the general Ready/Valid model, -1 when it is infeasible
GeneralMaxPeak(p, wv, rv) ==
    LET S == RvCpModel(p, wv, rv)
    IN  IF S = {} THEN -1 ELSE SetMax({s.peak : s \in S})

\* C5: for every balanced Ready/Valid configuration the peak the analytic
\* phase sweep returns equals the maximum peak of the general constraint
\* model for the same masks, caps, latencies and totals.
C5_AnalyticEqualsGeneral ==
    (results.set /\ sol.path = "rv_analysis") =>
        results.occ_peak = GeneralMaxPeak(params, write_valid, read_valid)

\* The block scenario of n cycles of writes followed by n cycles of reads
BlockScenario(n) ==
    /\ spec.fifo_type = "ready_valid" /\ spec.layered
    /\ spec.write_profile = PlainProfile(n, n)
    /\ spec.read_profile = PlainProfile(n, n)
    /\ params.horizon = 2 * n
    /\ params.w_max = 1 /\ params.r_max = 1
    /\ params.wr_latency = 0 /\ params.rd_latency = 0
    /\ params.margin_val = 0 /\ params.rounding = "none"
    /\ base_sync_fifo_depth = 0

SolvedModel ==
    CASE sol.path = "rv_cp_sat" -> RvCpModel(params, write_valid, read_valid)
      [] sol.path = "cbfc" ->
            CbfcCpModel(params, write_valid, read_valid, EffectiveCredits[1],
                        EffectiveCredits[2], results_check_args.occ_max)
      [] sol.path = "xon_xoff" ->
            XonXoffCpModel(params, write_valid, read_valid,
                           sol.throughput_abs_req, sol.peak_ub)
      [] sol.path = "replay" ->
            ReplayCpModel(params, ReplayRttEff(params, rd_sync_cycles_in_wr))
      [] OTHER -> {}

\* C7: for each constraint-model solve the returned witness attains
\* occ[t*] = peak at an index t* >= 1 that is the first index of the peak
\* in the witness, exactly one selector is set (the one of t*), and no
\* assignment of the same constraints with the same optimal peak reaches
\* the peak at an index before t*.
C7_EarliestPeak ==
    (pc = "check_results" /\ sol.path \in ConstraintPaths \cup {"replay"}) =>
        /\ sol.t_star >= 1 /\ sol.t_star <= params.horizon
        /\ At(results.occ_seq, sol.t_star) = results.occ_peak
        /\ \A t \in 1..(sol.t_star - 1) : At(results.occ_seq, t) < results.occ_peak
        /\ SumSeq(sol.y) = 1
        /\ sol.y[sol.t_star] = 1
        /\ \A s \in SolvedModel :
              /\ s.peak <= results.occ_peak
              /\ s.peak = results.occ_peak =>
                    \A t \in 1..(sol.t_star - 1) : At(s.occ, t) < s.peak

\* C7 witness: a witness whose peak comes after cycle 1 although other
\* assignments of the same model reach lower peaks earlier
C7_Witness ==
    /\ pc = "check_results" /\ sol.path = "rv_cp_sat"
    /\ sol.t_star > 1
    /\ \E s \in SolvedModel : s.peak < results.occ_peak /\ At(s.occ, 1) = s.peak
    /\ \E t \in (sol.t_star + 1)..params.horizon :
          At(results.occ_seq, t) = results.occ_peak

\* C8: in every CBFC witness cred[0] = cred_init; for all t < horizon,
\* cred[t+1] = cred[t] - w[t] + ret[t] and w[t] <= cred[t]; 0 <= cred[t] <=
\* cred_max; ret[t] = cred_gran * r[t - rd_latency - cred_ret_latency] when
\* that index is >= 0 and 0 otherwise.
C8_CreditRecurrence ==
    (results.set /\ sol.path = "cbfc") =>
        /\ Len(sol.cred) = params.horizon + 1
        /\ At(sol.cred, 0) = EffectiveCredits[1]
        /\ \A t \in 0..(params.horizon - 1) :
              /\ At(sol.cred, t + 1) =
                    At(sol.cred, t) - At(results.w_seq, t) + At(sol.ret, t)
              /\ At(results.w_seq, t) <= At(sol.cred, t)
              /\ At(sol.ret, t) =
                    IF t - params.rd_latency - params.cred_ret_latency >= 0
                    THEN params.cred_gran
                         * At(results.r_seq,
                              t - params.rd_latency - params.cred_ret_latency)
                    ELSE 0
        /\ \A u \in 0..params.horizon :
              0 <= At(sol.cred, u) /\ At(sol.cred, u) <= EffectiveCredits[2]

\* C8 witness: credits returned after a positive round trip, with a
\* granularity above one, and the writer spending every credit it holds
C8_Witness ==
    /\ results.set /\ sol.path = "cbfc"
    /\ params.rd_latency + params.cred_ret_latency > 0
    /\ \E t \in 0..(params.horizon - 1) :
          At(sol.ret, t) > 0 /\ At(sol.cred, t + 1) > At(sol.cred, t)
    /\ \E t \in 0..(params.horizon - 1) :
          At(results.w_seq, t) > 0 /\ At(results.w_seq, t) = At(sol.cred, t)

\* CBFC with one credit per item, no latency and cred_init = cred_max
CreditLoop ==
    /\ results.set /\ sol.path = "cbfc"
    /\ params.cred_gran = 1 /\ params.cred_ret_latency = 0
    /\ params.rd_latency = 0 /\ params.wr_latency = 0
    /\ EffectiveCredits[1] = EffectiveCredits[2]

\* C9: for CBFC with cred_gran = 1, cred_ret_latency = rd_latency =
\* wr_latency = 0 and cred_init = cred_max = C, cred[t] + occ[t] = C at
\* every cycle, so the raw peak (and the depth with zero margin, no
\* rounding and no CDC context) is at most C, and no write exceeds the
\* credits held.
C9_CreditsPlusOccupancy ==
    CreditLoop =>
        /\ \A t \in 0..params.horizon :
              At(sol.cred, t) + At(results.occ_seq, t) = EffectiveCredits[1]
        /\ results.occ_peak <= EffectiveCredits[1]
        /\ (params.margin_val = 0 /\ params.rounding = "none"
            /\ base_sync_fifo_depth = 0) => results.depth <= EffectiveCredits[1]
        /\ \A t \in 0..(params.horizon - 1) :
              At(results.w_seq, t) <= At(sol.cred, t)

\* C9 witness: the writer may send more than C items in total and the
\* peak stops at C > 0, every credit spent
C9_Witness ==
    /\ CreditLoop
    /\ EffectiveCredits[1] > 0
    /\ EffectiveCredits[1] < params.sum_w_max
    /\ results.occ_peak = EffectiveCredits[1]
    /\ \E t \in 0..params.horizon : At(sol.cred, t) = 0

\* C10: after a complete CBFC run (get_results with adjust_results, then
\* check_results), an achieved throughput sum(w) / (horizon * w_max) below
\* the target (sum_r_min / horizon) / w_max leaves basic_checks_pass false
\* with a diagnostic message attached.
C10_ThroughputShortfallFails ==
    (/\ sol.path = "cbfc" /\ results.set
     /\ pc \in {"save_results", "handle_results", "done", "error"}
     /\ SumSeq(results.w_seq) < params.sum_r_min) =>
        /\ ~results.basic_checks_pass
        /\ results.msg # ""

(***************************************************************************)
(* Claims on CBFC credit resolution                                        *)
(***************************************************************************)
\* Pairs the search of _minimize_auto_credits ranges over that admit a schedule
FeasibleCreditPairs(p, wv, rv) ==
    LET b == _compute_credit_bounds_from_caps(p, wv, rv)
        ub == Max2(p.sum_w_max, b.cred_max_lb)
    IN  {c \in (b.cred_init_lb..ub) \X (0..ub) :
            /\ Max2(b.cred_max_lb, c[1]) <= c[2]
            /\ _feasible_with_credits(p, wv, rv, c[1], c[2])}

LexMinPair(S) ==
    CHOOSE x \in S : \A y \in S : x[1] < y[1] \/ (x[1] = y[1] /\ x[2] <= y[2])

\* get_results of a CBFC run with automatic credits has been executed
CbfcAutoResolved ==
    /\ params.fifo_type = "cbfc"
    /\ params.cred_init = AUTO \/ params.cred_max = AUTO
    /\ pc \in {"check_results", "save_results", "handle_results", "done"}
       \/ (pc = "error" /\ err \in {"SystemExit", "RuntimeError"}
           /\ Len(write_valid) = params.horizon)

\* C11: with automatic credits and cred_auto_optimize, whenever some pair in
\* the searched range admits a schedule, _minimize_auto_credits returns the
\* lexicographically smallest such pair (cred_init first, then cred_max)
C11_MinimizeIsLexMin ==
    (CbfcAutoResolved /\ params.cred_auto_optimize
     /\ FeasibleCreditPairs(params, write_valid, read_valid) # {})
    => _minimize_auto_credits(params, write_valid, read_valid)
         = LexMinPair(FeasibleCreditPairs(params, write_valid, read_valid))

\* get_results of a CBFC run with user-supplied credits has been executed
CbfcUserResolved ==
    /\ params.fifo_type = "cbfc"
    /\ params.cred_init # AUTO /\ params.cred_max # AUTO
    /\ pc \in {"check_results", "save_results", "handle_results", "done"}
       \/ (pc = "error" /\ err \in {"SystemExit", "RuntimeError"}
           /\ Len(write_valid) = params.horizon)

\* cred_init < max_deficit or cred_max < max_deficit + max_surplus
BelowCreditBounds ==
    LET b == _compute_credit_bounds_from_caps(params, write_valid, read_valid)
    IN  \/ params.cred_init < Max2(0, b.max_deficit)
        \/ params.cred_max < Max2(0, b.max_deficit) + b.max_surplus

\* C12: with both credits user-supplied, credits below the closed-form
\* bounds end get_results with SystemExit before a model is built or solved;
\* credits that meet the bounds are used unchanged: the credit pool of the
\* model starts at cred_init and is bounded by cred_max, and the run only
\* stops for the throughput bound or an infeasible model
C12_UserCreditsFailFast ==
    CbfcUserResolved =>
        IF BelowCreditBounds
        THEN /\ pc = "error" /\ err = "SystemExit"
             /\ sol = NoSol /\ results = NoResults
             /\ cred_bounds = NoCredBounds
        ELSE /\ pc = "error" =>
                \/ err = "SystemExit"
                   /\ ThroughputBelowRequired(params, params.cred_init)
                \/ err = "RuntimeError" /\ sol = NoSol
             /\ pc # "error" =>
                /\ sol.path = "cbfc"
                /\ At(sol.cred, 0) = params.cred_init
                /\ InDomain(sol.cred, 0, params.cred_max)
                /\ sol.cred = CredSeq(params.cred_init, sol.w, sol.ret,
                                      params.horizon)

\* A run stopped although cred_init alone meets its bound
C12_Witness ==
    /\ CbfcUserResolved /\ BelowCreditBounds
    /\ ~UserCredInitTooSmall(params, write_valid, read_valid)
    /\ pc = "error" /\ err = "SystemExit"

\* cred_init as get_results passes it to _get_throughput_upper_bound
EffectiveCredInit == EffectiveCredits[1]

\* min(asymptotic bound, startup bound, sum_w_max / horizon)
\*     < sum_r_min / horizon, every term multiplied by horizon (and by T)
BelowRequiredReadRate ==
    LET h == params.horizon
        lat == params.rd_latency + params.cred_ret_latency
    IN  \/ Min2(params.sum_w_max, params.sum_r_max) < params.sum_r_min
        \/ params.sum_w_max < params.sum_r_min
        \/ \E T \in 1..Min2(h, Max2(32, 8 * (lat + 1))) :
              EffectiveCredInit * h
                  + params.cred_gran * params.sum_r_min * Max2(0, T - lat)
              < params.sum_r_min * T

\* C13: a CBFC configuration whose analytic throughput upper bound is below
\* the required read rate sum_r_min / horizon ends get_results with
\* SystemExit and without a solve; so does every configuration with
\* sum_w_max < sum_r_min
C13_ThroughputBoundRejects ==
    (CbfcUserResolved \/ CbfcAutoResolved) =>
        /\ BelowRequiredReadRate =>
              /\ pc = "error" /\ err = "SystemExit"
              /\ sol = NoSol /\ results = NoResults
        /\ params.sum_w_max < params.sum_r_min => pc = "error"

\* Rejected for the throughput bound with credits that pass their own check
C13_Witness ==
    /\ CbfcUserResolved /\ ~BelowCreditBounds
    /\ params.sum_w_max < params.sum_r_min
    /\ pc = "error" /\ err = "SystemExit" /\ sol = NoSol

(***************************************************************************)
(* Claims on the XON/XOFF pause and throttle                               *)
(***************************************************************************)
\* C14: in every XON/XOFF witness in_pause[0] = 0 and, for t < horizon,
\* in_pause[t+1] = 1 exactly when occ[t] >= xoff, or in_pause[t] = 1 and
\* occ[t] > xon
C14_PauseHysteresis ==
    sol.path = "xon_xoff" =>
        /\ Len(sol.in_pause) = params.horizon + 1
        /\ At(sol.in_pause, 0) = 0
        /\ \A t \in 0..(params.horizon - 1) :
              (At(sol.in_pause, t + 1) = 1)
              <=> \/ At(sol.occ, t) >= params.xoff
                  \/ At(sol.in_pause, t) = 1 /\ At(sol.occ, t) > params.xon

\* A pause that is held below xoff, and a pause that is cleared
C14_Witness ==
    /\ sol.path = "xon_xoff"
    /\ \E t \in 0..(params.horizon - 1) :
          /\ At(sol.in_pause, t) = 1 /\ At(sol.in_pause, t + 1) = 1
          /\ At(sol.occ, t) < params.xoff

\* C15: throttle_active[t] = 1 exactly when in_pause[j] = 1 for some j in
\* max(0, t - react_latency - resume_latency) .. t - react_latency, and
\* w[t] <= w_throttle_max whenever throttle_active[t] = 1
C15_ThrottleWindow ==
    sol.path = "xon_xoff" =>
        /\ Len(sol.throttle_active) = params.horizon
        /\ \A t \in 0..(params.horizon - 1) :
              /\ (At(sol.throttle_active, t) = 1)
                 <=> \E j \in Max2(0, t - params.react_latency
                                        - params.resume_latency)
                              ..(t - params.react_latency) :
                        At(sol.in_pause, j) = 1
              /\ At(sol.throttle_active, t) = 1
                 => At(sol.w, t) <= params.w_throttle_max

\* The throttle is held after the pause has cleared
C15_Witness ==
    /\ sol.path = "xon_xoff"
    /\ params.resume_latency > 0
    /\ \E t \in 0..(params.horizon - 1) :
          /\ At(sol.throttle_active, t) = 1
          /\ t - params.react_latency >= 0
          /\ At(sol.in_pause, t - params.react_latency) = 0

RECURSIVE SimulateXonXoff(_, _, _, _)
\* Cycle-by-cycle simulation of written and read items over n cycles: the
\* pause flag follows the occupancy with hysteresis, the throttle follows
\* the pause flag, a throttled cycle accepts at most w_throttle_max items
SimulateXonXoff(p, w, r, n) ==
    IF n = 0 THEN [occ |-> <<0>>, in_pause |-> <<0>>]
    ELSE LET prev == SimulateXonXoff(p, w, r, n - 1)
             t == n - 1
             throttled ==
                 \E j \in Max2(0, t - p.react_latency - p.resume_latency)
                          ..(t - p.react_latency) : At(prev.in_pause, j) = 1
             we == IF t < p.wr_latency THEN 0
                   ELSE LET u == t - p.wr_latency
                        IN  At(w, u)
             accepted == IF throttled THEN Min2(we, p.w_throttle_max) ELSE we
             re == IF t < p.rd_latency THEN 0 ELSE At(r, t - p.rd_latency)
             pause == IF \/ At(prev.occ, t) >= p.xoff
                         \/ At(prev.in_pause, t) = 1 /\ At(prev.occ, t) > p.xon
                      THEN 1 ELSE 0
         IN  [occ |-> Append(prev.occ, At(prev.occ, t) + accepted - re),
              in_pause |-> Append(prev.in_pause, pause)]

\* XON/XOFF solved as a hard stop without reaction or resume latency
HardStopSolved ==
    /\ sol.path = "xon_xoff"
    /\ params.react_latency = 0 /\ params.resume_latency = 0
    /\ params.wr_latency = 0 /\ params.w_throttle_max = 0 /\ params.w_max = 1

\* C16: with react_latency = 0, resume_latency = 0, wr_latency = 0,
\* w_throttle_max = 0 and w_max = 1 every returned witness has
\* occ[t] <= xoff + 1 for t in 0..horizon, and simulating the returned
\* w and r through the occupancy recurrence and the pause and throttle rules
\* reproduces the returned occ_seq
C16_HardStopOccupancy ==
    HardStopSolved =>
        /\ \A t \in 0..params.horizon : At(results.occ_seq, t) <= params.xoff + 1
        /\ SimulateXonXoff(params, results.w_seq, results.r_seq,
                           params.horizon).occ = results.occ_seq

\* The scenario xon = 2, xoff = 5 solved with the occupancy at xoff
C16_Witness ==
    /\ HardStopSolved
    /\ params.xon = ScenarioXoff - 3 /\ params.xoff = ScenarioXoff
    /\ params.sum_w_max > params.xoff + 1
    /\ results.set /\ results.occ_peak = params.xoff

(***************************************************************************)
(* Claims on the XON/XOFF automatic sweep                                  *)
(***************************************************************************)
\* get_results has returned from an automatic sweep
AutoSolved ==
    /\ sol.path = "xon_xoff"
    /\ params.thresholds = "auto"

\* The trials of the sweep, each solved on its own for its maximum peak,
\* without a bound from another trial
IndependentTrials ==
    [i \in 1..Len(sol.trials) |->
        TrialOf(params, write_valid, read_valid, base_sync_fifo_depth,
                [xon |-> sol.trials[i].xon, xoff |-> sol.trials[i].xoff], NONE)]

\* Lexicographic order of two tuples of the same length
LexLess(a, b) ==
    \E i \in DOMAIN a : a[i] < b[i] /\ \A j \in 1..(i - 1) : a[j] = b[j]

\* The first trial with the least key among the solved ones, 0 if none
FirstBest(trs) ==
    LET solved == {i \in 1..Len(trs) : trs[i].solved}
        least == {i \in solved :
                     \A j \in solved : /\ ~LexLess(trs[j].key, trs[i].key)
                                       /\ j < i => LexLess(trs[i].key, trs[j].key)}
    IN  IF least = {} THEN 0 ELSE CHOOSE i \in least : TRUE

\* C17: the pair the automatic sweep selects, the raw peak and the depth it
\* reports are those of a sweep in which every candidate is solved
\* independently, without the bound peak <= best-so-far peak
C17_PruningIsPureOptimization ==
    AutoSolved =>
        LET trs == IndependentTrials
            i == FirstBest(trs)
        IN  /\ i # 0
            /\ params.xon = trs[i].xon /\ params.xoff = trs[i].xoff
            /\ results.occ_peak = trs[i].key[4]
            /\ results.depth = trs[i].key[1]

\* C18: the pair selected in automatic mode is the first-visited trial with
\* the least key (depth, band if prefer_small_band, xoff if prefer_low_xoff,
\* raw peak, t*) among the trials that solved, and the final results are
\* those of one further solve at that pair under the write lower bound of
\* the winning trial
C18_SelectedPairHasLeastKey ==
    AutoSolved =>
        LET i == FirstBest(sol.trials)
        IN  /\ i # 0
            /\ params.xon = sol.trials[i].xon /\ params.xoff = sol.trials[i].xoff
            /\ sol.throughput_abs_req = sol.trials[i].abs_req
            /\ \A n \in 1..Len(sol.trials) :
                  LET tr == sol.trials[n]
                      band == tr.xoff - tr.xon
                  IN  tr.solved =>
                        /\ tr.key[2] = IF params.prefer_small_band THEN band ELSE INF
                        /\ tr.key[3] = IF params.prefer_low_xoff THEN tr.xoff ELSE INF
            /\ \E s \in TwoPhaseSolve(
                             XonXoffCpModel(params, write_valid, read_valid,
                                            sol.trials[i].abs_req, sol.peak_ub)) :
                  /\ [results EXCEPT !.basic_checks_pass = FALSE, !.msg = ""]
                     = XonXoffResultsOf(s, params, base_sync_fifo_depth)
                  /\ s.w = sol.w /\ s.r = sol.r

\* Two solved trials tie on the key and the first one is selected
C18_Witness ==
    /\ AutoSolved
    /\ \E i, j \in 1..Len(sol.trials) :
          /\ i < j
          /\ sol.trials[i].solved /\ sol.trials[j].solved
          /\ sol.trials[i].key = sol.trials[j].key
          /\ params.xon = sol.trials[i].xon /\ params.xoff = sol.trials[i].xoff

\* get_results has raised RuntimeError in automatic mode
AutoFailed ==
    /\ pc = "error" /\ err = "RuntimeError"
    /\ params.fifo_type = "xon_xoff" /\ params.thresholds = "auto"

\* The pairs the sweep visits for the current parameters
SweepCandidates ==
    LET eff == _get_effective_thresholds(params, write_valid, read_valid)
    IN  SweepTrials(params, eff.xon_min_eff, eff.xoff_lo_eff, eff.xoff_hi_eff)

\* C19: in automatic mode a trial whose solve fails is skipped, the sweep
\* goes on with the next candidate and the best so far is unchanged; the
\* solve raises RuntimeError, without results, when no trial succeeds or
\* the tightened xoff range is empty
C19_FailedTrialsAreSkipped ==
    LET eff == _get_effective_thresholds(params, write_valid, read_valid)
        log == sol.trials
        visited == [i \in 1..Len(log) |-> [xon |-> log[i].xon, xoff |-> log[i].xoff]]
        skipped(i) ==
            IF i = 1 THEN log[i].best_key = <<>>
            ELSE /\ log[i].best_key = log[i - 1].best_key
                 /\ log[i].best_xon = log[i - 1].best_xon
                 /\ log[i].best_xoff = log[i - 1].best_xoff
    IN  /\ AutoSolved =>
              /\ eff.ok
              /\ visited = SweepCandidates
              /\ \E i \in 1..Len(log) : log[i].solved
              /\ \A i \in 1..Len(log) : ~log[i].solved => skipped(i)
        /\ AutoFailed =>
              /\ ~results.set
              /\ \/ ~eff.ok /\ log = <<>>
                 \/ /\ eff.ok
                    /\ visited = SweepCandidates
                    /\ \A i \in 1..Len(log) : ~log[i].solved /\ skipped(i)

\* A trial failed after an earlier one had solved, and a later one solved
C19_Witness ==
    /\ AutoSolved
    /\ \E i, j \in 1..Len(sol.trials) :
          /\ i < j
          /\ ~sol.trials[i].solved /\ sol.trials[j].solved

(***************************************************************************)
(* Claim on the Replay closed form                                         *)
(***************************************************************************)
\* The largest inflight level over all send schedules of the replay model:
\* no sends in the last rtt_eff cycles, every send acknowledged rtt_eff
\* cycles later, nothing in flight at the end; no upper bound on inflight
ReplayMaxInflight(p, rtt_eff) ==
    LET sends == {w \in [1..p.horizon -> 0..p.w_max] :
                     \A t \in Max2(0, p.horizon - rtt_eff)..(p.horizon - 1) :
                         At(w, t) = 0}
        infl(w) == occ_evolution(w, AckSeq(w, rtt_eff), 0, 0, p.horizon)
    IN  SetMax({PeakOf(infl(w)) :
                   w \in {x \in sends : /\ At(infl(x), p.horizon) = 0
                                        /\ \A t \in 0..p.horizon : At(infl(x), t) >= 0}})

\* C20: for every Replay configuration with 0 < rtt_eff <= horizon the
\* largest inflight level over the schedules of the replay model is
\* min(rtt_eff, horizon - rtt_eff) * w_max, and the solved peak equals it
C20_ReplayClosedForm ==
    params.fifo_type = "replay" =>
        LET rtt_eff == ReplayRttEff(params, rd_sync_cycles_in_wr)
            closed == Min2(rtt_eff, params.horizon - rtt_eff) * params.w_max
        IN  /\ pc = "get_results" /\ 0 < rtt_eff /\ rtt_eff <= params.horizon
                  => ReplayMaxInflight(params, rtt_eff) = closed
            /\ sol.path = "replay"
                  => /\ 0 < rtt_eff /\ rtt_eff <= params.horizon
                     /\ sol.peak = closed /\ results.occ_peak = closed
            /\ ~(pc = "error" /\ err = "RuntimeError")

\* The scenario rtt = 4, horizon = 10, w_max = 1 solved with peak 4
C20_Witness ==
    /\ sol.path = "replay"
    /\ params.rtt = ScenarioRtt /\ params.horizon = 2 * ScenarioRtt + 2
    /\ params.w_max = 1
    /\ ReplayRttEff(params, rd_sync_cycles_in_wr) = ScenarioRtt
    /\ results.occ_peak = ScenarioRtt

(***************************************************************************)
(* Replay witness, CDC context, depth adjustment                           *)
(***************************************************************************)
\* Sum of seq[t] over the Python indices lo..hi-1
WindowSum(seq, lo, hi) == SumSeq([i \in 1..(hi - lo) |-> At(seq, lo + i - 1)])

\* C21: in every Replay witness infl[0] = 0, infl[t+1] = infl[t] + w[t] - a[t],
\* a[t] = w[t - rtt_eff] for t >= rtt_eff and 0 before, w[t] = 0 for every
\* t >= horizon - rtt_eff and infl[horizon] = 0; hence infl[t] is the number
\* of items sent in the preceding rtt_eff cycles and every item sent is
\* acknowledged exactly rtt_eff cycles later, within the horizon
C21_ReplayWitness ==
    sol.path = "replay" =>
        LET h == params.horizon
            rtt_eff == ReplayRttEff(params, rd_sync_cycles_in_wr)
            w == results.w_seq
            a == results.r_seq
            infl == results.occ_seq
        IN  /\ Len(w) = h /\ Len(a) = h /\ Len(infl) = h + 1
            /\ At(infl, 0) = 0
            /\ \A t \in 0..(h - 1) :
                  /\ At(infl, t + 1) = At(infl, t) + At(w, t) - At(a, t)
                  /\ At(a, t) = IF t >= rtt_eff THEN At(w, t - rtt_eff) ELSE 0
                  /\ t >= h - rtt_eff => At(w, t) = 0
                  /\ At(w, t) > 0 => /\ t + rtt_eff < h
                                     /\ At(a, t + rtt_eff) = At(w, t)
            /\ At(infl, h) = 0
            /\ \A t \in 0..h :
                  At(infl, t) = WindowSum(w, Max2(0, t - rtt_eff), t)
            /\ SumSeq(a) = SumSeq(w)

\* A Replay witness that sends in several cycles and has them acknowledged
C21_Witness ==
    /\ sol.path = "replay"
    /\ ReplayRttEff(params, rd_sync_cycles_in_wr) >= 2
    /\ results.occ_peak >= 2
    /\ SumSeq(results.w_seq) >= 3
    /\ SumSeq(results.r_seq) = SumSeq(results.w_seq)

\* C23: after get_results of any protocol the reported depth is
\* round(margin(raw peak + extras)): extras are atomic_tail (Replay and
\* XON/XOFF) and base_sync_fifo_depth of the CDC context when positive, the
\* margin is applied to that sum and the rounding to the margined value; the
\* later steps leave the depth as it is, and it is never below the raw peak.
C23_DepthAdjustment ==
    (results.set /\ pc \in {"check_results", "save_results", "handle_results",
                            "done"}) =>
        LET tail == IF params.fifo_type \in {"replay", "xon_xoff"}
                    THEN params.atomic_tail ELSE 0
            base == IF cdc_ctx.base_sync_fifo_depth > 0
                    THEN cdc_ctx.base_sync_fifo_depth ELSE 0
            raw == results.occ_peak + tail + base
            margined == IF params.margin_type = "percentage"
                        THEN CeilDiv(raw * (100 + params.margin_val), 100)
                        ELSE raw + params.margin_val
        IN  /\ params.rounding = "none" => results.depth = margined
            /\ params.rounding = "power2" =>
                   /\ results.depth >= margined
                   /\ \E e \in 0..30 : results.depth = 2 ^ e
                   /\ results.depth > 1 => results.depth \div 2 < margined
            /\ results.depth >= results.occ_peak

C23_Witness ==
    /\ pc = "done"
    /\ params.fifo_type = "xon_xoff" /\ params.atomic_tail = 1
    /\ cdc_ctx.base_sync_fifo_depth = 2
    /\ params.margin_type = "percentage" /\ params.rounding = "power2"
    /\ results.occ_peak = 2 /\ results.depth = 8

(***************************************************************************)
(* CDC stage: reported depth, exported context, credit loop                *)
(***************************************************************************)
\* C29: the depth a CDC stage reports is the rounded, margined sum of the
\* credit-loop, phase-margin and ppm-drift depths; base_sync_fifo_depth is
\* not in that sum, is written to the scalars file under its own key, and is
\* 0 whenever the read clock is at least as fast as the write clock.
C29_CdcDepthExcludesMismatch ==
    (results.set /\ pc \in {"check_results", "save_results", "handle_results", "done"}) =>
        LET inner == results.credit_loop_depth + results.phase_margin_depth
                         + results.ppm_drift_depth
            margined == IF params.margin_type = "percentage"
                        THEN CeilDiv(inner * (100 + params.margin_val), 100)
                        ELSE inner + params.margin_val
        IN  /\ params.rounding = "none" => results.depth = margined
            /\ params.rounding = "power2" =>
                   /\ results.depth >= margined
                   /\ \E e \in 0..30 : results.depth = 2 ^ e
                   /\ results.depth > 1 => results.depth \div 2 < margined
            /\ "base_sync_fifo_depth" \in CdcScalarsFile(results).keys
            /\ CdcScalarsFile(results).base_sync_fifo_depth
                   = results.base_sync_fifo_depth
            /\ params.rd_clk_freq >= params.wr_clk_freq
                   => results.base_sync_fifo_depth = 0

C29_Witness ==
    /\ pc = "done" /\ saved
    /\ results.base_sync_fifo_depth > 0
    /\ params.margin_type = "percentage" /\ params.rounding = "power2"
    /\ results.credit_loop_depth + results.phase_margin_depth
           + results.ppm_drift_depth < results.depth

\* C30: with equal clocks and zero ppm on both, ppm_drift_depth is 0 and
\* credit_loop_depth is wr_items_per_cycle times the sum of the eight cycle
\* counts of the pointer round trip (9 per item for the default counts).
C30_CreditLoopEqualClocks ==
    (/\ results.set /\ pc = "done"
     /\ params.wr_clk_freq = params.rd_clk_freq
     /\ params.wr_clk_ppm = 0 /\ params.rd_clk_ppm = 0) =>
        /\ results.ppm_drift_depth = 0
        /\ results.credit_loop_depth =
               wr_items_per_cycle
                   * (params.wptr_inc_cycles + params.wptr_sync_slip_cycles
                      + params.wptr_sync_stages + params.rd_react_cycles
                      + params.rptr_inc_cycles + params.rptr_sync_slip_cycles
                      + params.rptr_sync_stages + params.wr_full_update_cycles)

\* C22: after a CDC stage that exported a write-pointer CDC latency of k > 0
\* write-domain cycles, the downstream run folds k into its latency: CBFC and
\* XON/XOFF parameters carry rd_latency = configured rd_latency + k, a
\* Ready/Valid run gets past get_params, and Replay uses rtt_eff = rtt + k.
C22_CdcLatencyFolded ==
    \A f \in CdcFiles :
        (/\ f.exists /\ f.wptr_cdc_cycles_in_wr > 0
         /\ cdc_ctx = _get_cdc_ctx(f)) =>
            /\ spec.fifo_type = "ready_valid" => err # "AttributeError"
            /\ pc \in {"check_params", "get_valids", "check_valids",
                       "get_results", "check_results", "save_results",
                       "handle_results", "done"} =>
                  /\ spec.fifo_type \in {"cbfc", "xon_xoff"} =>
                         params.rd_latency
                             = flat_spec.rd_latency + f.wptr_cdc_cycles_in_wr
                  /\ spec.fifo_type = "replay" =>
                         ReplayRttEff(params, rd_sync_cycles_in_wr)
                             = params.rtt + f.wptr_cdc_cycles_in_wr

\* C24: round_value(v, 'power2') is the smallest power of two >= v, so a
\* power of two is returned unchanged and rounding a rounded value changes
\* nothing; round_value(v, 'none') = v; apply_margin(v, type, 0) = v for the
\* percentage and the absolute margin type, for every integer v >= 0.
C24_RoundingAndMarginIdentities ==
    /\ \A i \in 1..Len(calls) :
         LET c == calls[i]
         IN  /\ (c.fn = "round_value" /\ c.mode = "power2") =>
                    LET v == NatOfBits(c.val)
                        r == NatOfBits(c.ret)
                    IN  /\ \E e \in 0..30 : r = 2 ^ e
                        /\ r >= v
                        /\ r > 1 => r \div 2 < v
                        /\ (\E e \in 0..30 : v = 2 ^ e) => r = v
             /\ (c.fn = "round_value" /\ c.mode = "none") => c.ret = c.val
             /\ (c.fn = "apply_margin" /\ c.margin_val = 0) => c.ret = c.val
    /\ \A i \in 1..Len(calls) - 1 :
         (/\ calls[i].fn = "round_value" /\ calls[i + 1].fn = "round_value"
          /\ calls[i].mode = calls[i + 1].mode) =>
             calls[i + 1].ret = calls[i].ret

\* The part of C24 that is about values a float holds exactly (below
\* 2^WideBits)
C24_InRange ==
    (\A i \in 1..Len(calls) : Len(calls[i].val) <= WideBits) =>
        C24_RoundingAndMarginIdentities


(***************************************************************************)
(* Layered traffic compiler                                                *)
(***************************************************************************)
\* The state after get_flat_spec of a layered file
Compiled == spec.layered /\ pc = "get_model"

\* The period of a profile, restated from its fields
PeriodOf(p) ==
    p.s_cnt * (p.b_cnt * (p.t_valid + p.t_gap) + p.b_gap) + p.s_gap

\* The mask has a run of n equal cycles of value v
HasRun(mask, v, n) ==
    \E i \in 1..Len(mask) - n + 1 : \A j \in i..i + n - 1 : mask[j] = v

\* C25: after compile_layered_spec the read mask has no valid slot before
\* data can exist: when the write mask has a valid cycle, read_valid[t] = 0
\* for every t < first_w + wr_latency, first_w the first valid write cycle.
C25_NoReadBeforeData ==
    (Compiled /\ \E i \in 1..Len(write_valid) : write_valid[i] = 1) =>
        \A i \in 1..Len(write_valid) :
            (write_valid[i] = 1 /\ \A j \in 1..i - 1 : write_valid[j] = 0) =>
                \A t \in 0..Len(read_valid) - 1 :
                    t < (i - 1) + spec.wr_latency => read_valid[t + 1] = 0

\* C26: with at least two transactions per burst and t_valid > 0, t_gap > 0
\* the write-congestion pattern of one period has a valid window of
\* 2 * t_valid cycles and the read-congestion pattern an idle window of
\* 2 * t_gap cycles; for t_valid = 4, t_gap = 4, transactions_per_burst = 2
\* the write pattern is four idle, eight valid, four idle cycles and the read
\* pattern four valid, eight idle, four valid cycles.
C26_FusedWindows ==
    \A i \in 1..Len(calls) :
        LET c == calls[i]
        IN  (/\ c.fn = "_profile_from_spec"
             /\ c.val.b_cnt >= 2 /\ c.val.t_valid > 0 /\ c.val.t_gap > 0) =>
                /\ c.mode = "write_congestion" =>
                       HasRun(c.ret, 1, 2 * c.val.t_valid)
                /\ c.mode = "read_congestion" =>
                       HasRun(c.ret, 0, 2 * c.val.t_gap)
                /\ (c.val = DocumentedProfile /\ c.mode = "write_congestion")
                       => c.ret = <<0, 0, 0, 0, 1, 1, 1, 1,
                                    1, 1, 1, 1, 0, 0, 0, 0>>
                /\ (c.val = DocumentedProfile /\ c.mode = "read_congestion")
                       => c.ret = <<1, 1, 1, 1, 0, 0, 0, 0,
                                    0, 0, 0, 0, 1, 1, 1, 1>>

\* The part of C26 that is about profiles with two or more bursts per stream
C26_FusedWindowsOfStreams ==
    \A i \in 1..Len(calls) :
        LET c == calls[i]
        IN  (/\ c.fn = "_profile_from_spec" /\ c.val.s_cnt >= 2
             /\ c.val.b_cnt >= 2 /\ c.val.t_valid > 0 /\ c.val.t_gap > 0) =>
                /\ c.mode = "write_congestion" =>
                       HasRun(c.ret, 1, 2 * c.val.t_valid)
                /\ c.mode = "read_congestion" =>
                       HasRun(c.ret, 0, 2 * c.val.t_gap)

\* C27: the compiled write_valid and read_valid have length horizon, hold
\* only 0 and 1, and repeat with the period of their profile,
\* P = s_cnt * (b_cnt * (t_valid + t_gap) + b_gap) + s_gap; the one-period
\* pattern of either congestion mode has length P.
C27_MasksPeriodic ==
    /\ Compiled =>
        /\ Len(write_valid) = flat_spec.horizon
        /\ Len(read_valid) = flat_spec.horizon
        /\ \A t \in 1..Len(write_valid) : write_valid[t] \in {0, 1}
        /\ \A t \in 1..Len(read_valid) : read_valid[t] \in {0, 1}
        /\ \A t \in 0..Len(write_valid) - 1 :
               write_valid[t + 1]
                   = write_valid[(t % PeriodOf(spec.write_profile)) + 1]
        /\ \A t \in 0..Len(read_valid) - 1 :
               read_valid[t + 1]
                   = read_valid[(t % PeriodOf(spec.read_profile)) + 1]
    /\ \A i \in 1..Len(calls) :
           calls[i].fn = "_profile_from_spec" =>
               /\ Len(calls[i].ret) = PeriodOf(calls[i].val)
               /\ \A t \in 1..Len(calls[i].ret) : calls[i].ret[t] \in {0, 1}

C27_Witness ==
    /\ Compiled
    /\ spec.write_profile.b_cnt = 2 /\ spec.write_profile.s_cnt = 3
    /\ spec.write_profile.b_gap = 1 /\ spec.write_profile.s_gap = 1
    /\ PeriodOf(spec.write_profile) = 16
    /\ spec.read_profile = DefaultSpec.read_profile
    /\ flat_spec.horizon = 64
    /\ \E t \in 1..64 : write_valid[t] = 0
    /\ \E t \in 1..64 : write_valid[t] = 1

\* C28: the horizon compile_layered_spec returns is a multiple of
\* overall_period = lcm(write period, read period); for an explicit request h
\* it is the smallest multiple >= h, for 'auto' the smallest multiple
\* >= max(4 * blind_window, kmin_blocks * overall_period).
C28_HorizonMultiple ==
    Compiled =>
        LET wp == PeriodOf(spec.write_profile)
            rp == PeriodOf(spec.read_profile)
            floor == IF spec.horizon = AUTO
                     THEN Max2(4 * spec.blind_window,
                               spec.kmin_blocks * overall_period)
                     ELSE spec.horizon
        IN  /\ overall_period % wp = 0 /\ overall_period % rp = 0
            /\ \A m \in 1..overall_period - 1 : ~(m % wp = 0 /\ m % rp = 0)
            /\ flat_spec.horizon % overall_period = 0
            /\ flat_spec.horizon >= floor
            /\ flat_spec.horizon - overall_period < floor

C28_Witness ==
    /\ Compiled /\ spec.horizon = ExplicitHorizon
    /\ overall_period = 4 /\ flat_spec.horizon = 8


(***************************************************************************)
(* Rejected specifications, result checks, and what a run leaves behind    *)
(***************************************************************************)
\* The loaded flat specification has one of the defects the parameter check
\* of its protocol rejects
TotalsAboveCapacity(s) ==
    /\ s.fifo_type # "replay"
    /\ \/ s.sum_w_max > s.horizon * s.w_max
       \/ s.sum_r_max > s.horizon * s.r_max

MinAboveMax(s) ==
    /\ s.fifo_type # "replay"
    /\ s.sum_w_min > s.sum_w_max \/ s.sum_r_min > s.sum_r_max

BadThresholds(s) ==
    /\ s.fifo_type = "xon_xoff"
    /\ \/ s.thresholds = "manual" /\ s.xon >= s.xoff
       \/ s.w_throttle_max > s.w_max

BadRtt(s) == s.fifo_type = "replay" /\ (s.rtt <= 0 \/ s.rtt > s.horizon)

Defective(s) ==
    /\ ~s.layered
    /\ \/ s.horizon <= 0
       \/ TotalsAboveCapacity(s)
       \/ MinAboveMax(s)
       \/ BadThresholds(s)
       \/ BadRtt(s)

C32_FailedCheckLeavesMessage ==
    \A i \in 1..Len(calls) :
        LET c == calls[i]
        IN  c.fn = "FifoResults.check" =>
                LET top == SeqMax(Tail(c.val))
                    ok == c.ret.occ_peak = top /\ top <= c.margin_val
                IN  /\ ok => c.ret.basic_checks_pass
                    /\ ~ok => ~c.ret.basic_checks_pass /\ c.ret.msg # ""

\* The part of C32 that is about the flag alone
C32_FlagFollowsCheck ==
    \A i \in 1..Len(calls) :
        LET c == calls[i]
        IN  c.fn = "FifoResults.check" =>
                LET top == SeqMax(Tail(c.val))
                IN  c.ret.basic_checks_pass
                        <=> (c.ret.occ_peak = top /\ top <= c.margin_val)

UncappedCbfcModel ==
    CbfcCpModel(params, write_valid, read_valid, EffectiveCredits[1],
                EffectiveCredits[2], params.sum_w_max)

\* C34: the CBFC occupancy cap min(sum_w_max, cred_init + max_deficit) never
\* excludes a schedule allowed by the credit model: every schedule within
\* the caps, the sum bounds, w[t] <= cred[t] and 0 <= cred[t] <= cred_max has
\* occ[t] <= cred_init + max_deficit at every t, so the reported peak is the
\* true worst case.
C34_OccupancyCapSound ==
    (pc = "check_results" /\ sol.path = "cbfc") =>
        /\ results_check_args.occ_max
               = Min2(params.sum_w_max, EffectiveCredits[1] + cred_bounds.max_deficit)
        /\ \A s \in UncappedCbfcModel :
              /\ \A t \in 0..params.horizon :
                    At(s.occ, t) <= EffectiveCredits[1] + cred_bounds.max_deficit
              /\ s.peak <= sol.peak

\* The part of C34 that is about one credit per item (cred_gran = 1)
C34_CapSoundUnitGranularity ==
    (pc = "check_results" /\ sol.path = "cbfc" /\ params.cred_gran = 1) =>
        \A s \in UncappedCbfcModel :
            /\ \A t \in 0..params.horizon :
                  At(s.occ, t) <= EffectiveCredits[1] + cred_bounds.max_deficit
            /\ s.peak <= sol.peak


\* horizon < sum_w_max / w_max + sum_r_max / r_max, as exact fractions
ShortHorizon(p) ==
    /\ p.w_max > 0 /\ p.r_max > 0
    /\ p.horizon * p.w_max * p.r_max
           < p.sum_w_max * p.r_max + p.sum_r_max * p.w_max

\* C35: a horizon shorter than sum_w_max / w_max + sum_r_max / r_max only
\* produces a warning: the parameter check completes and the solve proceeds
\* and returns results for such a configuration.
C35_ShortHorizonOnlyWarns ==
    (ShortHorizon(params) /\ pc = "error") => err # "Warning"

\* The steps after get_params
PastGetParams ==
    {"check_params", "get_valids", "check_valids", "get_results",
     "check_results", "save_results", "handle_results", "done"}

\* What C36 says of a run without CDC context, for the protocols in P
NoCdcContextNoEffect(P) ==
    (cdc_ctx = NoCdc /\ spec.fifo_type \in P) =>
        /\ err # "AttributeError"
        /\ pc \in PastGetParams =>
              /\ params.rd_latency = flat_spec.rd_latency
              /\ params.fifo_type = "replay" =>
                     ReplayRttEff(params, rd_sync_cycles_in_wr) = params.rtt
        /\ (results.set /\ pc \in PastGetParams) =>
              LET tail == IF params.fifo_type \in {"replay", "xon_xoff"}
                          THEN params.atomic_tail ELSE 0
              IN  results.depth
                      = round_value(apply_margin(results.occ_peak + tail,
                                                 params.margin_type,
                                                 params.margin_val),
                                    params.rounding)

\* C36: when no CDC context exists (no cdc_results_scalars.json in the output
\* directory, or the file is corrupt), get_params of every protocol solver
\* completes without error and leaves rd_latency equal to the configured
\* value, Replay uses rtt_eff = rtt, and the final depth receives no CDC
\* addition.
C36_NoCdcContextNoEffect ==
    NoCdcContextNoEffect({"ready_valid", "cbfc", "xon_xoff", "replay"})

\* The part of C36 that is about CBFC, XON/XOFF and Replay
C36_NoEffectWithCredits ==
    NoCdcContextNoEffect({"cbfc", "xon_xoff", "replay"})

\* base_sync_fifo_depth as _adjust_results adds it
CdcShift == IF base_sync_fifo_depth > 0 THEN base_sync_fifo_depth ELSE 0

XonXoffReported ==
    /\ sol.path = "xon_xoff"
    /\ pc \in {"check_results", "save_results", "handle_results", "done"}

\* C37: after the XON/XOFF post-solve adjustment the reported thresholds
\* equal the solved thresholds plus base_sync_fifo_depth (not scaled by
\* margin, rounding or atomic_tail), lie in [0, depth], and keep the
\* hysteresis ordering xon < xoff, for every solved pair and every
\* margin/rounding setting.
C37_ThresholdsTranslated ==
    XonXoffReported =>
        /\ results.xon = params.xon + CdcShift
        /\ results.xoff = params.xoff + CdcShift
        /\ 0 <= results.xon /\ results.xon <= results.depth
        /\ 0 <= results.xoff /\ results.xoff <= results.depth
        /\ results.xon < results.xoff

\* The part of C37 that is about pairs whose xoff the adjusted depth covers
C37_TranslatedWithinDepth ==
    (XonXoffReported
     /\ params.xoff + CdcShift
            <= round_value(apply_margin(results.occ_peak + params.atomic_tail
                                            + CdcShift,
                                        params.margin_type, params.margin_val),
                           params.rounding)) =>
        /\ results.xon = params.xon + CdcShift
        /\ results.xoff = params.xoff + CdcShift
        /\ results.xon < results.xoff
        /\ results.xoff <= results.depth

\* The range alone holds for every pair
C37_ThresholdsInRange ==
    XonXoffReported =>
        /\ 0 <= results.xon /\ results.xon <= results.depth
        /\ 0 <= results.xoff /\ results.xoff <= results.depth

\* The scalars file the CDC stage of a spec file writes
ExpectedCdcFile(file) ==
    CdcScalarsFile(
        CdcResultsOf(file[2], _get_wr_window_cycles(file[2], file[1]),
                     _get_wr_items_per_cycle(file[1])))

\* What C38 says of each state of main
C38_StageOrder ==
    main_pc \in {"run_cdc", "run_sync"} =>
        LET file == Head(spec_files)
        IN  /\ (main_pc = "run_cdc" /\ ~HasCdc(file)) =>
                   pc = "get_spec" /\ ~results.set /\ ~saved /\ ~outdir.exists
            /\ main_pc = "run_sync" =>
                   /\ outdir = IF HasCdc(file) THEN ExpectedCdcFile(file)
                               ELSE NoCdcFile
                   /\ pc # "get_spec" => cdc_ctx = _get_cdc_ctx(outdir)
            /\ results.set =>
                   IF main_pc = "run_cdc" THEN CdcParamsCheck(params) = ""
                   ELSE ParamsCheck(params) = ""
            /\ (results.set /\ pc \in {"done", "error"}) => saved
            /\ (main_pc = "run_cdc" /\ saved) => outdir = ExpectedCdcFile(file)

\* What C38 says of each step of main: the synchronous stage starts from a
\* finished CDC stage only, and nothing follows a stage that raised
C38_StageStep ==
    /\ (main_pc = "run_cdc" /\ main_pc' = "run_sync" /\ HasCdc(Head(spec_files)))
           => pc = "done" /\ saved /\ err = "" /\ results.basic_checks_pass
    /\ pc = "error" => UNCHANGED vars

\* C38: for each spec file main runs the CDC stage (only when the file has a
\* cdc section) to completion, including saving its scalar context, before
\* the synchronous stage starts; inside each stage the parameter check
\* precedes the solve and the results are saved before the pass/fail flag is
\* acted on; if the CDC stage fails, the synchronous stage is never started
\* for that file.
C38_StagesInOrder == [](C38_StageOrder) /\ [][C38_StageStep]_vars

\* C38 witness: the synchronous stage of a second file has finished with the
\* context its own CDC stage saved
C38_Witness ==
    /\ main_pc = "run_sync" /\ pc = "done"
    /\ Len(spec_files) = 1
    /\ HasCdc(Head(spec_files))
    /\ outdir.exists /\ cdc_ctx.base_sync_fifo_depth > 0
    /\ saved /\ results.set

(***************************************************************************)
(* C39: the reference model of rad_async_fifo is a strict FIFO              *)
(***************************************************************************)
\* The step is a call on the reference model that is visible in the state
RefModelCalled == ref_model' # ref_model \/ ref_call' # ref_call

\* The step is calc_exp of a write item / of a read item
WriteCalled == RefModelCalled /\ ref_call'.fn = "calc_exp" /\ ref_call'.ret.kind = "write"
ReadCalled == RefModelCalled /\ ref_call'.fn = "calc_exp" /\ ref_call'.ret.kind = "read"

\* The four counters of the reference model
Counters(m) ==
    <<m._writes_accepted, m._writes_dropped, m._reads_accepted, m._reads_blocked>>

\* The queue holds at most depth = 2^asize words of dsize bits, and the item
\* of a read returned last carries data only when the read was accepted
C39_QueueInRange ==
    /\ ref_model.depth = 2 ^ ref_model.asize
    /\ Len(ref_model._fifo) \in 0..ref_model.depth
    /\ \A i \in 1..Len(ref_model._fifo) :
         ref_model._fifo[i] \in 0..(2 ^ ref_model.dsize - 1)

\* What one call on the reference model does
C39_CallStep ==
    /\ ReadCalled =>
         LET accepted == /\ ref_call'.ret.rinc = 1
                         /\ ref_model._fifo # <<>>
                         /\ ~ref_model._rrst_active
         IN  /\ accepted =>
                  /\ ref_call'.ret.rdata = Head(ref_model._fifo)
                  /\ ref_model'._fifo = Tail(ref_model._fifo)
             /\ ~accepted =>
                  /\ ref_call'.ret.rdata = NONE
                  /\ ref_model'._fifo = ref_model._fifo
             /\ ref_model._rrst_active => ref_model' = ref_model
    /\ WriteCalled =>
         LET requested == ref_call'.ret.winc = 1 /\ ~ref_model._wrst_active
             full == Len(ref_model._fifo) = ref_model.depth
             word == IF ref_call'.ret.wdata = NONE THEN 0
                     ELSE ref_call'.ret.wdata % (2 ^ ref_model.dsize)
         IN  /\ (requested /\ ~full) =>
                  ref_model'._fifo = Append(ref_model._fifo, word)
             /\ (requested /\ full) =>
                  /\ ref_model'._fifo = ref_model._fifo
                  /\ ref_model'._writes_dropped = ref_model._writes_dropped + 1
             /\ ~requested => ref_model'._fifo = ref_model._fifo
             /\ ref_model._wrst_active => ref_model' = ref_model
    /\ (/\ RefModelCalled
        /\ ref_call'.fn \in {"wrst_change", "rrst_change", "reset_change"}
        /\ ref_call'.active) =>
         /\ ref_model'._fifo = <<>>
         /\ Counters(ref_model') = <<0, 0, 0, 0>>

\* C39: after any sequence of write, read and reset events the queue length
\* of the reference model stays in 0..depth with depth = 2^asize; an accepted
\* read (rinc = 1, queue not empty, read domain not in reset) returns the
\* oldest accepted write not yet read, masked to dsize bits; a read that is
\* not accepted yields rdata = None; a write arriving at a full queue is
\* dropped and counted; asserting the reset of either domain empties the
\* queue and zeroes the counters; writes (reads) change nothing while the
\* write (read) domain is in reset.
C39_RefModelIsFifo == [](C39_QueueInRange) /\ [][C39_CallStep]_vars

\* Two words were written, the older one was read back, then a write met the
\* full queue and was dropped, with wider data than the model keeps
C39_Witness ==
    /\ ref_model._reads_accepted >= 1
    /\ ref_model._writes_dropped >= 1
    /\ Len(ref_model._fifo) = ref_model.depth
    /\ ref_call.fn = "calc_exp"
    /\ ref_call.ret.kind = "write"
    /\ ref_call.ret.wdata # NONE
    /\ ref_call.ret.wdata > ref_model.data_mask

(***************************************************************************)
(* C40: the write driver respects wfull                                     *)
(***************************************************************************)
\* The step is one pass of the loop of drive_item
CycleDriven == drv_pc = "drive_item" /\ wclk_edges' # wclk_edges

\* No write is driven in a cycle that sampled wfull = 1, and a write item
\* still being driven after a cycle has driven idle cycles only
C40_NoWriteWhenFull ==
    /\ drv_tr.wfull = 1 => dut.winc = 0
    /\ (drv_pc = "drive_item" /\ drv_tr.wfull # NONE) =>
         /\ drv_tr.winc = 1
         /\ drv_tr.wfull = 1
         /\ dut = [winc |-> 0, wdata |-> 0]

\* What one pass of the loop does, and when drive_item returns
C40_CycleStep ==
    /\ CycleDriven =>
         /\ drv_tr'.wfull \in {0, 1}
         /\ (drv_tr.winc = 1 /\ drv_tr'.wfull = 1) =>
              /\ dut'.winc = 0
              /\ drv_pc' = "drive_item"
         /\ (drv_tr.winc = 1 /\ drv_tr'.wfull = 0) =>
              /\ dut' = [winc |-> 1, wdata |-> drv_tr.wdata]
              /\ drv_pc' = "get_next_item"
         /\ drv_tr.winc = 0 =>
              /\ dut'.winc = 0
              /\ drv_pc' = "get_next_item"
    /\ (drv_pc = "drive_item" /\ drv_pc' # "drive_item") =>
         /\ CycleDriven
         /\ drv_tr.winc = 1 => (drv_tr'.wfull = 0 /\ dut'.winc = 1)
         /\ drv_tr.winc = 0 => drv_tr.wfull = NONE
    /\ (drv_pc = "drive_item" /\ ~CycleDriven) => UNCHANGED <<drv_tr, dut, drv_pc>>

\* C40: the write driver never drives winc = 1 in a cycle in which it sampled
\* wfull = 1 at the drive edge; for an item with winc = 1 it drives idle
\* cycles while wfull = 1 and returns only after driving the requested write
\* once, in the first cycle where wfull is sampled 0, so it completes if
\* wfull eventually deasserts; an item with winc = 0 is driven for exactly
\* one cycle.
C40_WriteDriverRespectsFull ==
    /\ [](C40_NoWriteWhenFull)
    /\ [][C40_CycleStep]_vars
    /\ ([]<>(drv_tr.wfull # 1)) => ((drv_pc = "drive_item") ~> (drv_pc = "get_next_item"))

\* A write item is stalled: the driver sampled wfull = 1, drove an idle
\* cycle, and is still inside drive_item after two drive edges
C40_Witness ==
    /\ drv_pc = "drive_item"
    /\ drv_tr.winc = 1
    /\ drv_tr.wdata > 0
    /\ drv_tr.wfull = 1
    /\ dut = [winc |-> 0, wdata |-> 0]
    /\ wclk_edges = 2

====
